---- MODULE Spec2Model ----
(***************************************************************************)
(* Model of the chain-based chatbot router (api_web_chatbot.py and the     *)
(* systems it dispatches to).  Texts are sequences of one-character        *)
(* strings, so that escaping, trimming, case mapping and pattern search    *)
(* are computed character by character as the Python code computes them.   *)
(***************************************************************************)
EXTENDS Integers, Sequences, FiniteSets, TLC

VARIABLES
    pc,               \* position of the process: boot, idle, a request stage, done
    llm,              \* the module-level llm chosen by get_llm ("none" before)
    llm_trace,        \* backends touched by get_llm, in order
    payload,          \* payload["message"] of the request in flight
    user_message,     \* chat's local user_message (stripped, sanitized, summarized)
    flow_decision,    \* process_message's flow_decision ("" before Stage 1 ends)
    calls,            \* collaborators and handlers invoked by the request, in order
    result,           \* what chat returned (NoResult while in flight)
    memory,           \* exchanges saved by memory.save_context
    chatbot_instance, \* the global EmotionChatbot ("none" until created)
    emotion_counts,   \* EmotionChatbot.emotion_counts / mood_counter.txt
    chat_log,         \* lines of chat_history.txt
    mood_file,        \* mood_counter.txt
    emotion_call,     \* the last call of the emotion or statistics engine and what it found
    nreq,             \* requests started so far
    snap,             \* memory, counters and log as they were when the request began
    fn_in,            \* input text of a pure function under check
    fn_out,           \* its output
    fn_pc,            \* "build" while the input is being drawn, "done" once applied
    rag_service,      \* RagService: _client, _embedder, _model_loading, _model_loaded
    loader,           \* the thread of preload_model_async
    collection,       \* the Chroma collection project_pdfs on disk
    rag_call          \* the call of the RAG service in progress, and where it stands

vars == <<pc, llm, llm_trace, payload, user_message, flow_decision, calls, result,
          memory, chatbot_instance, emotion_counts, chat_log, nreq, snap,
          fn_in, fn_out, fn_pc, rag_service, loader, collection, rag_call,
          mood_file, emotion_call>>

req_vars == <<pc, llm, llm_trace, payload, user_message, flow_decision, calls, result,
              memory, chatbot_instance, emotion_counts, chat_log, nreq, snap>>

fn_vars == <<fn_in, fn_out, fn_pc>>

rag_vars == <<rag_service, loader, collection, rag_call>>

emo_vars == <<mood_file, emotion_call>>

----------------------------------------------------------------------------
(* Texts *)

\* the tuple of the values of a function over 1..n
Tup(f, n) == SubSeq(f, 1, n)

\* a string as the sequence of its characters
Chars(s) == Tup([i \in 1..Len(s) |-> SubSeq(s, i, i)], Len(s))

\* n times the character c
Rep(c, n) == Tup([i \in 1..n |-> c], n)

\* Letters a string of the module cannot hold are written as named characters.
g_breve   == "g-breve"
s_cedilla == "s-cedilla"
dotless_i == "dotless-i"
G_BREVE   == "G-BREVE"
S_CEDILLA == "S-CEDILLA"

\* The case pairs of str.lower() and str.upper() over the letters of the model
\* (Latin and Turkish; the dotless i upper-cases to I, and I lower-cases to i).
LowerFrom == Chars("ABCDEFGHIJKLMNOPQRSTUVWXYZÇÖÜ") \o <<G_BREVE, S_CEDILLA>>
LowerTo   == Chars("abcdefghijklmnopqrstuvwxyzçöü") \o <<g_breve, s_cedilla>>
UpperFrom == Chars("abcdefghijklmnopqrstuvwxyzçöü") \o <<g_breve, s_cedilla, dotless_i>>
UpperTo   == Chars("ABCDEFGHIJKLMNOPQRSTUVWXYZÇÖÜ") \o <<G_BREVE, S_CEDILLA, "I">>
DigitChars == Chars("0123456789")

IsIn(c, seq) == \E i \in 1..Len(seq) : seq[i] = c

RECURSIVE PairMap(_, _, _)
\* the mapping from[k] -> to[k], from index k on
PairMap(from, to, k) ==
    IF k > Len(from) THEN [x \in {} |-> x]
    ELSE (from[k] :> to[k]) @@ PairMap(from, to, k + 1)

LowerMap == PairMap(LowerFrom, LowerTo, 1)
UpperMap == PairMap(UpperFrom, UpperTo, 1)

MapChar(c, map) == IF c \in DOMAIN map THEN map[c] ELSE c

\* str.upper() and str.lower(), character by character
upper(t) == Tup([i \in 1..Len(t) |-> MapChar(t[i], UpperMap)], Len(t))
lower(t) == Tup([i \in 1..Len(t) |-> MapChar(t[i], LowerMap)], Len(t))

\* the characters \s matches and str.strip() removes
IsSpace(c) == c \in {" ", "\t", "\n", "\r", "\f"}

\* the characters \w matches
IsWord(c) ==
    c \in DOMAIN LowerMap \/ c \in DOMAIN UpperMap \/ IsIn(c, DigitChars) \/ c = "_"

\* str.strip()
strip(t) ==
    IF \A i \in 1..Len(t) : IsSpace(t[i]) THEN <<>>
    ELSE LET first == CHOOSE i \in 1..Len(t) :
                          ~IsSpace(t[i]) /\ \A j \in 1..(i - 1) : IsSpace(t[j])
             last  == CHOOSE i \in 1..Len(t) :
                          ~IsSpace(t[i]) /\ \A j \in (i + 1)..Len(t) : IsSpace(t[j])
         IN  SubSeq(t, first, last)

\* lit occurs in t at position i
At(t, i, lit) ==
    /\ i >= 1
    /\ i + Len(lit) - 1 <= Len(t)
    /\ \A j \in 1..Len(lit) : t[i + j - 1] = lit[j]

\* Python's `lit in t`
Contains(t, lit) == \E i \in 1..(Len(t) - Len(lit) + 1) : At(t, i, lit)

----------------------------------------------------------------------------
(* FlowDecisionParser *)

valid_flows == <<"ANIMAL", "RAG", "EMOTION", "STATS", "HELP">>

Flows == {valid_flows[k] : k \in 1..Len(valid_flows)}

RECURSIVE parse_loop(_, _, _)
\* the for loop of parse over the list flows, from index k on
parse_loop(text, flows, k) ==
    IF k > Len(flows) THEN "HELP"
    ELSE IF Contains(text, Chars(flows[k])) THEN flows[k]
    ELSE parse_loop(text, flows, k + 1)

\* a parser that forgets to upper-case the model's text
parse_no_upper(text) == parse_loop(strip(text), valid_flows, 1)

\* FlowDecisionParser.parse
parse(text) == parse_loop(upper(strip(text)), valid_flows, 1)

----------------------------------------------------------------------------
(* Sanitizer *)

MAX_MESSAGE_LENGTH == 2000
MAX_TOKENS_PER_REQUEST == 1000

\* html.escape(text, quote=True): the replacement of one character
escape_char(c) ==
    CASE c = "&"  -> Chars("&amp;")
      [] c = "<"  -> Chars("&lt;")
      [] c = ">"  -> Chars("&gt;")
      [] c = "\"" -> Chars("&quot;")
      [] c = "'"  -> Chars("&#x27;")
      [] OTHER    -> <<c>>

RECURSIVE escape_range(_, _, _)
escape_range(t, lo, hi) ==
    IF lo > hi THEN <<>>
    ELSE IF lo = hi THEN escape_char(t[lo])
    ELSE LET mid == (lo + hi) \div 2
         IN  escape_range(t, lo, mid) \o escape_range(t, mid + 1, hi)

html_escape(t) == escape_range(t, 1, Len(t))

\* a literal of a pattern compiled with re.IGNORECASE: a character of the text
\* matches a character of the literal in either case
ci(s) == [lo |-> lower(Chars(s)), up |-> upper(Chars(s))]

\* the literal lit occurs in t at position i, in any mix of cases
AtCI(t, i, lit) ==
    /\ i >= 1
    /\ i + Len(lit.lo) - 1 <= Len(t)
    /\ \A j \in 1..Len(lit.lo) : t[i + j - 1] = lit.lo[j] \/ t[i + j - 1] = lit.up[j]

\* the patterns of DANGEROUS_PATTERNS, in list order
DANGEROUS_PATTERNS ==
    << [kind |-> "script", lit |-> ci("<script"), close |-> ci("</script>")],
       [kind |-> "lit", lit |-> ci("javascript:")],
       [kind |-> "lit", lit |-> ci("data:text/html")],
       [kind |-> "lit", lit |-> ci("vbscript:")],
       [kind |-> "on", lit |-> ci("on")],
       [kind |-> "tag", lit |-> ci("<iframe")],
       [kind |-> "tag", lit |-> ci("<object")],
       [kind |-> "tag", lit |-> ci("<embed")],
       [kind |-> "tag", lit |-> ci("<link")],
       [kind |-> "tag", lit |-> ci("<meta")] >>

\* r'<script[^>]*>.*?</script>': the tag opens, runs to its first '>', and a
\* closing tag follows on the same line ('.' does not match a newline)
search_script(t, p) ==
    \E i \in 1..Len(t) :
        /\ AtCI(t, i, p.lit)
        /\ \E k \in (i + Len(p.lit.lo))..Len(t) :
              /\ t[k] = ">"
              /\ \A m \in (i + Len(p.lit.lo))..(k - 1) : t[m] # ">"
              /\ \E e \in (k + 1)..Len(t) :
                    /\ AtCI(t, e, p.close)
                    /\ \A m \in (k + 1)..(e - 1) : t[m] # "\n"

\* r'<name[^>]*>'
search_tag(t, p) ==
    \E i \in 1..Len(t) :
        /\ AtCI(t, i, p.lit)
        /\ \E k \in (i + Len(p.lit.lo))..Len(t) : t[k] = ">"

\* r'on\w+\s*='
search_on(t, p) ==
    \E i \in 1..Len(t) :
        /\ AtCI(t, i, p.lit)
        /\ \E j \in (i + 2)..Len(t) :
              /\ \A m \in (i + 2)..j : IsWord(t[m])
              /\ \E k \in (j + 1)..Len(t) :
                    /\ t[k] = "="
                    /\ \A m \in (j + 1)..(k - 1) : IsSpace(t[m])

\* r'javascript:' and the other plain literals
search_lit(t, p) == \E i \in 1..(Len(t) - Len(p.lit.lo) + 1) : AtCI(t, i, p.lit)

\* re.search(pattern, text, re.IGNORECASE)
re_search(p, text) ==
    CASE p.kind = "script" -> search_script(text, p)
      [] p.kind = "lit"    -> search_lit(text, p)
      [] p.kind = "on"     -> search_on(text, p)
      [] p.kind = "tag"    -> search_tag(text, p)

\* the for loop over a pattern list: some pattern is found in text
matches_any(patterns, text) ==
    \E k \in 1..Len(patterns) : re_search(patterns[k], text)

BLOCKED == Chars("[Güvenlik nedeniyle mesaj filtrelendi]")

RECURSIVE collapse_range(_, _, _)
\* re.sub(r'\s+', ' ', text): every maximal run of whitespace becomes one space
collapse_range(t, lo, hi) ==
    IF lo > hi THEN <<>>
    ELSE IF lo = hi
         THEN IF IsSpace(t[lo])
              THEN IF lo > 1 /\ IsSpace(t[lo - 1]) THEN <<>> ELSE <<" ">>
              ELSE <<t[lo]>>
    ELSE LET mid == (lo + hi) \div 2
         IN  collapse_range(t, lo, mid) \o collapse_range(t, mid + 1, hi)

collapse_spaces(t) == collapse_range(t, 1, Len(t))

\* after html.escape: the denylist, then the whitespace
sanitize_escaped(escaped, patterns, sentinel) ==
    IF matches_any(patterns, escaped) THEN sentinel
    ELSE strip(collapse_spaces(escaped))

\* the body shared by _sanitize_input, _sanitize_rag_query, _sanitize_animal_input
\* and _sanitize_emotion_input: escape, then the denylist, then the whitespace
sanitize_with(text, patterns, sentinel) ==
    IF Len(text) = 0 THEN <<>>
    ELSE sanitize_escaped(html_escape(text), patterns, sentinel)

\* _sanitize_input
sanitize_input(text) == sanitize_with(text, DANGEROUS_PATTERNS, BLOCKED)

\* a length check that lets one character more pass
validate_message_length_lenient(text) == Len(text) <= MAX_MESSAGE_LENGTH + 1

\* _validate_message_length
validate_message_length(text) == Len(text) <= MAX_MESSAGE_LENGTH

\* _estimate_tokens
estimate_tokens(text) == Len(text) \div 4

\* a token check that lets one token more pass
exceeds_token_limit_lenient(text) == estimate_tokens(text) > MAX_TOKENS_PER_REQUEST + 1

\* the second test of chat's token check
exceeds_token_limit(text) == estimate_tokens(text) > MAX_TOKENS_PER_REQUEST

\* _summarize_text_if_needed: summarizer is what _get_summarizer and the
\* pipeline yield ([up |-> FALSE] when the pipeline cannot be loaded or fails)
summarize_text_if_needed(text, estimated_tokens, token_threshold, summarizer) ==
    IF estimated_tokens <= token_threshold THEN text
    ELSE IF ~summarizer.up THEN text
    ELSE IF Len(strip(summarizer.summary)) = 0 THEN text
    ELSE strip(summarizer.summary)

----------------------------------------------------------------------------
(* The inputs of the model *)

MaxRequests == 1

\* what a client may post as payload["message"]
MessageList ==
    << <<>>,
       Chars("  "),
       Chars("merhaba"),
       Chars(" kedi bilgi ver "),
       Chars("dog photo"),
       Rep("a", MAX_MESSAGE_LENGTH),
       Rep("a", MAX_MESSAGE_LENGTH + 1),
       Rep("\"", 667) \o Chars("a"),
       Rep("\"", 667) \o Chars("aa"),
       Chars("<script>x</script>"),
       Chars("javascript:x"),
       Chars("a onload = b") >>

\* what the summarization pipeline may yield
Summarizers ==
    { [up |-> FALSE],
      [up |-> TRUE, summary |-> <<>>],
      [up |-> TRUE, summary |-> Chars("kisa metin")] }

\* what the completion backend may return to the flow-decision chain: a plain
\* string (OpenAI) or a message object with a content field (Gemini)
ClassifierTexts ==
    { Chars("RAG"), Chars(" animal\n"), Chars("EMOTION"), Chars("Stats."),
      Chars("HELP"), Chars("Bu konuda ANIMAL ak") \o <<dotless_i, s_cedilla, dotless_i>>,
      Chars("RAG veya ANIMAL"), Chars("bilmiyorum") }

LlmReplies ==
    { [shape |-> sh, text |-> t] : sh \in {"str", "content"}, t \in ClassifierTexts }

NoResult == [pending |-> TRUE]

NoSnap == [memory |-> <<>>, emotion_counts |-> <<>>, chat_log |-> <<>>]

\* no call of the emotion or statistics engine yet
NoEmotionCall == [op |-> "none", n |-> 0, saved |-> [written |-> FALSE]]

\* the ten labels of allowed_moods (written with the letters a string can hold)
allowed_moods ==
    << "Mutlu", "Üzgün", "Öfkeli", "Saskin", "Utangaç",
       "Endiseli", "Yorgun", "Gururlu", "Çaresiz", "Flörtöz" >>

Moods == {allowed_moods[k] : k \in 1..Len(allowed_moods)}

----------------------------------------------------------------------------
(* get_llm *)

\* where get_llm goes after the probe of the primary backend raised at once
after_primary_raise_at_once(ok) == IF ok THEN "idle" ELSE "crashed"

\* where get_llm goes after the probe of the primary backend
after_primary(ok) == IF ok THEN "idle" ELSE "boot_secondary"

\* try: OpenAI(...).invoke("test")
GetLlmPrimary ==
    /\ pc = "boot"
    /\ \E ok \in BOOLEAN :
          /\ llm_trace' = Append(llm_trace, [backend |-> "openai", ok |-> ok])
          /\ llm' = IF ok /\ after_primary(ok) = "idle" THEN "openai" ELSE llm
          /\ pc' = after_primary(ok)
    /\ UNCHANGED <<payload, user_message, flow_decision, calls, result, memory,
                   chatbot_instance, emotion_counts, chat_log, nreq, snap, fn_vars, rag_vars, emo_vars>>

\* except: the Gemini key, probe and wrapper; a second failure raises
GetLlmSecondary ==
    /\ pc = "boot_secondary"
    /\ \E ok \in BOOLEAN :
          /\ llm_trace' = Append(llm_trace, [backend |-> "gemini", ok |-> ok])
          /\ llm' = IF ok THEN "gemini" ELSE llm
          /\ pc' = IF ok THEN "idle" ELSE "crashed"
    /\ UNCHANGED <<payload, user_message, flow_decision, calls, result, memory,
                   chatbot_instance, emotion_counts, chat_log, nreq, snap, fn_vars, rag_vars, emo_vars>>

----------------------------------------------------------------------------
(* chat: validation *)

\* `if isinstance(result, dict) and "error" in result` and the return of chat
chat_return(r) == IF "error" \in DOMAIN r THEN [error |-> r.error] ELSE r

\* chat after _sanitize_input
chat_sanitized(sanitized) ==
    IF sanitized = BLOCKED THEN [error |-> "FILTERED"]
    ELSE [ok |-> TRUE, text |-> sanitized]

\* chat after the strip of the payload's message
chat_stripped(stripped) ==
    IF Len(stripped) = 0 THEN [error |-> "EMPTY_MESSAGE"]
    ELSE IF ~validate_message_length(stripped) THEN [error |-> "MESSAGE_TOO_LONG"]
    ELSE chat_sanitized(sanitize_input(stripped))

\* chat up to the sanitizer: an {error} result, or the sanitized text
chat_validate(message) == chat_stripped(strip(message))

\* the hard token limit of chat on the text left by the summarizer
chat_token_check(text) ==
    IF exceeds_token_limit(text)
    THEN [error |-> "TOO_MANY_TOKENS", text |-> text]
    ELSE [ok |-> TRUE, text |-> text]

\* chat from the token estimate to the call of main_chain: an {error} result, or
\* the text handed to main_chain
chat_budget(sanitized, summarizer) ==
    chat_token_check(
        summarize_text_if_needed(sanitized, estimate_tokens(sanitized), 200, summarizer))

\* chat_validate of every message of MessageList, computed once
Validated ==
    Tup([k \in 1..Len(MessageList) |-> chat_validate(MessageList[k])], Len(MessageList))

\* chat leaves its checks with c, for the message at index k
ChatWith(k, c) ==
    /\ payload' = MessageList[k]
    /\ user_message' = IF "text" \in DOMAIN c THEN c.text ELSE <<>>
    /\ IF "error" \in DOMAIN c
       THEN /\ result' = [error |-> c.error]
            /\ pc' = "done"
       ELSE /\ result' = NoResult
            /\ pc' = "classify"

Chat ==
    /\ pc = "idle"
    /\ nreq < MaxRequests
    /\ \E k \in 1..Len(MessageList), sm \in Summarizers :
          ChatWith(k, IF "error" \in DOMAIN Validated[k] THEN Validated[k]
                      ELSE chat_budget(Validated[k].text, sm))
    /\ nreq' = nreq + 1
    /\ calls' = <<>>
    /\ flow_decision' = ""
    /\ snap' = [memory |-> memory, emotion_counts |-> emotion_counts, chat_log |-> chat_log]
    /\ UNCHANGED <<llm, llm_trace, memory, chatbot_instance, emotion_counts, chat_log,
                   fn_vars, rag_vars, emo_vars>>

----------------------------------------------------------------------------
(* Collaborators of the Stage-2 handlers *)

MAX_RAG_QUERY_LENGTH == 1000
MAX_ANIMAL_MESSAGE_LENGTH == 500
MAX_EMOTION_MESSAGE_LENGTH == 1000

\* DANGEROUS_RAG_PATTERNS, DANGEROUS_ANIMAL_PATTERNS and DANGEROUS_EMOTION_PATTERNS
\* hold the first eight patterns of DANGEROUS_PATTERNS
SUBFLOW_PATTERNS == SubSeq(DANGEROUS_PATTERNS, 1, 8)

RAG_BLOCKED == Chars("[Güvenlik nedeniyle sorgu filtrelendi]")

ContainsAny(t, words) == \E w \in words : Contains(t, w)

\* what the vector store does for a query that reaches it
RetrievalOutcomes == {"hit", "miss", "query_error", "unreachable"}

\* retrieve_top / retrieve_by_source: "chunks", "empty" or "raise"
retrieve(query, outcome) ==
    IF Len(query) = 0 THEN "empty"
    ELSE IF Len(query) > MAX_RAG_QUERY_LENGTH THEN "empty"
    ELSE IF sanitize_with(query, SUBFLOW_PATTERNS, RAG_BLOCKED) = RAG_BLOCKED THEN "empty"
    ELSE CASE outcome = "unreachable" -> "raise"
           [] outcome = "query_error" -> "empty"
           [] outcome = "miss"        -> "empty"
           [] outcome = "hit"         -> "chunks"

RAG_CAT_WORDS == {Chars("kedi"), Chars("cat")}
RAG_PARROT_WORDS ==
    {Chars("papa") \o <<g_breve>> \o Chars("an"), Chars("parrot"), Chars("ku") \o <<s_cedilla>>}
RAG_RABBIT_WORDS == {Chars("tav") \o <<s_cedilla>> \o Chars("an"), Chars("rabbit")}

\* a heuristic that asks for the parrot before the cat
rag_source_parrot_first(t) ==
    IF ContainsAny(t, RAG_PARROT_WORDS) THEN "parrot_care.pdf"
    ELSE IF ContainsAny(t, RAG_CAT_WORDS) THEN "cat_care.pdf"
    ELSE IF ContainsAny(t, RAG_RABBIT_WORDS) THEN "rabbit_care.pdf"
    ELSE ""

\* the keyword heuristic of _process_rag_flow on t = user_message.lower(): the
\* source file, or "" for the general retrieval
rag_source_of(t) ==
    IF ContainsAny(t, RAG_CAT_WORDS) THEN "cat_care.pdf"
    ELSE IF ContainsAny(t, RAG_PARROT_WORDS) THEN "parrot_care.pdf"
    ELSE IF ContainsAny(t, RAG_RABBIT_WORDS) THEN "rabbit_care.pdf"
    ELSE ""

rag_source(msg) == rag_source_of(lower(msg))

\* what the function-calling gateway and the fetch action do for route_animals
AnimalOutcomes == {"client_error", "no_function", "image", "text", "raise"}

ANIMAL_KEYWORDS ==
    { Chars("köpek"), Chars("dog"), Chars("kedi"), Chars("cat"),
      Chars("tilki"), Chars("fox"), Chars("ördek"), Chars("duck") }

\* route_animals after _sanitize_animal_input
route_sanitized(sanitized, outcome) ==
    IF sanitized = BLOCKED THEN "text"
    ELSE IF ~ContainsAny(lower(sanitized), ANIMAL_KEYWORDS) THEN "none"
    ELSE CASE outcome = "no_function" -> "none"
           [] outcome = "image"       -> "image"
           [] outcome = "text"        -> "text"
           [] OTHER                   -> "raise"

\* route_animals as animal_processor sees it: "none", "image", "text" or "raise"
route_animals(msg, outcome) ==
    IF Len(msg) = 0 THEN "none"
    ELSE IF Len(msg) > MAX_ANIMAL_MESSAGE_LENGTH THEN "text"
    ELSE route_sanitized(sanitize_with(msg, SUBFLOW_PATTERNS, BLOCKED), outcome)

\* the try block of animal_processor: the client, then route_animals
animal_try(msg, outcome) ==
    IF outcome = "client_error" THEN "raise" ELSE route_animals(msg, outcome)

\* the dict animal_processor builds, with its response text
animal_out(routed, response) ==
    IF routed \in {"image", "text"}
    THEN [animal |-> TRUE, type |-> routed, response |-> response]
    ELSE [response |-> response]

\* a memory that keeps nothing
save_context_dropped(mem, input, output) == mem

\* memory.save_context
save_context(mem, input, output) == Append(mem, [input |-> input, output |-> output])

\* the response text of an animal_processor that takes the router's empty result
\* for a failure
animal_response_none_as_failure(routed) ==
    CASE routed = "image" -> "PHOTO_READY"
      [] routed = "text"  -> "ANIMAL_TEXT"
      [] OTHER            -> "ANIMAL_API_UNAVAILABLE"

\* the response text of animal_processor for each end of its try block
animal_response(routed) ==
    CASE routed = "image" -> "PHOTO_READY"
      [] routed = "text"  -> "ANIMAL_TEXT"
      [] routed = "none"  -> "ANIMAL_NOT_FOUND"
      [] routed = "raise" -> "ANIMAL_API_UNAVAILABLE"

\* animal_processor once its try block ended as routed: the dict it returns and
\* the memory it leaves
animal_processor(msg, routed, mem) ==
    [out |-> animal_out(routed, animal_response(routed)),
     memory |-> save_context(mem, msg, animal_response(routed))]

\* a help flow whose dict lacks the response text
process_help_flow_no_response(msg, mem) ==
    [out |-> [help |-> TRUE],
     memory |-> save_context(mem, msg, "HELP_MESSAGE")]

\* _process_help_flow
process_help_flow(msg, mem) ==
    [out |-> [help |-> TRUE, response |-> "HELP_MESSAGE"],
     memory |-> save_context(mem, msg, "HELP_MESSAGE")]

\* int -> decimal digits, as json.dumps writes a counter
RECURSIVE int_to_digits(_)
int_to_digits(n) ==
    IF n < 10 THEN <<DigitChars[n + 1]>>
    ELSE int_to_digits(n \div 10) \o <<DigitChars[(n % 10) + 1]>>

digit_value(c) == (CHOOSE k \in 1..Len(DigitChars) : DigitChars[k] = c) - 1

\* decimal digits -> int, as json.loads and int() read a counter
RECURSIVE digits_to_int(_)
digits_to_int(d) ==
    IF Len(d) = 0 THEN 0
    ELSE digits_to_int(SubSeq(d, 1, Len(d) - 1)) * 10 + digit_value(d[Len(d)])

\* whether int(v) succeeds on a JSON value (a number, or a string of digits)
py_int_ok(value) ==
    /\ Len(value.text) > 0
    /\ \A i \in 1..Len(value.text) : IsIn(value.text[i], DigitChars)

\* the file `{}` that the import of emotion_system writes when there is none
EmptyMoodFile == [kind |-> "object", items |-> <<>>]

EmptyDict == [k \in {} |-> 0]

\* json.dumps(self.emotion_counts): the ten labels in the order of allowed_moods
json_dumps_counts(counts) ==
    [kind |-> "object",
     items |-> Tup([k \in 1..Len(allowed_moods) |->
                       [key |-> allowed_moods[k],
                        value |-> [type |-> "number",
                                   text |-> int_to_digits(counts[allowed_moods[k]])]]],
                   Len(allowed_moods))]

\* whether read_text, json.loads, isinstance(data, dict) and every int(v) succeed
counts_readable(file) ==
    /\ file.kind = "object"
    /\ \A i \in 1..Len(file.items) : py_int_ok(file.items[i].value)

\* {str(k): int(v) for k, v in data.items()}: the last value of a key counts
counts_dict(items) ==
    [k \in {items[i].key : i \in 1..Len(items)} |->
        digits_to_int(items[CHOOSE i \in 1..Len(items) :
                               /\ items[i].key = k
                               /\ \A j \in (i + 1)..Len(items) : items[j].key # k].value.text)]

\* EmotionChatbot._load_mood_counts
load_mood_counts(file) ==
    IF counts_readable(file) THEN counts_dict(file.items) ELSE EmptyDict

\* an __init__ that takes nothing from the file
init_counts_fresh(persisted) == [m \in Moods |-> 0]

\* EmotionChatbot.__init__: zeros, then the persisted counts of the known labels
init_counts(persisted) ==
    [m \in Moods |-> IF m \in DOMAIN persisted THEN persisted[m] ELSE 0]

\* a save that leaves a file alone once it holds a count
save_mood_counts_once(counts, file, ok) ==
    IF ok /\ file \in {EmptyMoodFile, json_dumps_counts([m \in Moods |-> 0])}
    THEN json_dumps_counts(counts) ELSE file

\* EmotionChatbot._save_mood_counts: the file after it (a failed write is swallowed)
save_mood_counts(counts, file, ok) == IF ok THEN json_dumps_counts(counts) ELSE file

\* what the completion backend may do for the emotion engine
MoodPicks == {"Mutlu", " Üzgün ", "Neseli"}

required_keys ==
    {"kullanici_ruh_hali", "ilk_ruh_hali", "ilk_cevap", "ikinci_ruh_hali", "ikinci_cevap"}

NoMoods == <<"", "", "">>

\* kind: the completion raises, asks for get_emotion_stats, or has content;
\* final_ok: the completion after the function call returns;
\* content: the text of the reply; has_json, keys, moods: the object that
\* extract_json_object finds in it; log_ok, save_ok: the data files can be written
EmotionReply(kind, final_ok, content, has_json, keys, moods, log_ok, save_ok) ==
    [kind |-> kind, final_ok |-> final_ok, content |-> content, has_json |-> has_json,
     keys |-> keys, moods |-> moods, log_ok |-> log_ok, save_ok |-> save_ok]

EmotionReplies ==
    { EmotionReply("raise", FALSE, "", FALSE, {}, NoMoods, TRUE, TRUE),
      EmotionReply("function_call", FALSE, "", FALSE, {}, NoMoods, TRUE, TRUE) }
    \cup { EmotionReply("function_call", TRUE, "2 kez mutlu oldun.", FALSE, {}, NoMoods,
                        ok, TRUE) : ok \in BOOLEAN }
    \cup { EmotionReply("content", FALSE, "Bugün hava güzel.", FALSE, {}, NoMoods,
                        ok, TRUE) : ok \in BOOLEAN }
    \cup { EmotionReply("content", FALSE, "{\"ilk_cevap\": \"Selam\"}", TRUE,
                        {"ilk_cevap"}, NoMoods, ok, TRUE) : ok \in BOOLEAN }
    \cup { EmotionReply("content", FALSE, "{... \"ikinci_cevap\" yok ...}", TRUE,
                        required_keys \ {"ikinci_cevap"}, <<"Mutlu", "Mutlu", "Mutlu">>,
                        TRUE, TRUE) }
    \cup { EmotionReply("content", FALSE, "{...}", TRUE, required_keys, <<a, b, c>>,
                        TRUE, TRUE) :
              a \in MoodPicks, b \in {"Mutlu"}, c \in MoodPicks }
    \cup { EmotionReply("content", FALSE, "{...}", TRUE, required_keys,
                        <<"Mutlu", "Mutlu", " Üzgün ">>, fs[1], fs[2]) :
              fs \in {<<FALSE, TRUE>>, <<TRUE, FALSE>>} }

\* the replies tried inside a /chat request: every path of chat, the user's
\* mood read as "Mutlu" where there are moods
RequestEmotionReplies ==
    { r \in EmotionReplies : r.moods[1] \in {"", "Mutlu"} /\ (r.log_ok \/ r.moods # NoMoods) }

EmotionEnvs == { [probe |-> p, reply |-> r] : p \in BOOLEAN, r \in RequestEmotionReplies }

\* an inc that looks the label up as it came
inc_unstripped(counts, mood) ==
    IF \E m \in DOMAIN counts : Chars(m) = Chars(mood)
    THEN [counts EXCEPT ![CHOOSE m \in DOMAIN counts : Chars(m) = Chars(mood)] = @ + 1]
    ELSE counts

\* inc of EmotionChatbot.chat: the counters after one mood field
inc(counts, mood) ==
    IF \E m \in DOMAIN counts : Chars(m) = strip(Chars(mood))
    THEN [counts EXCEPT ![CHOOSE m \in DOMAIN counts : Chars(m) = strip(Chars(mood))] = @ + 1]
    ELSE counts

\* the same for a mood field given by its characters
inc_text(counts, mood) ==
    IF \E m \in DOMAIN counts : Chars(m) = strip(mood)
    THEN [counts EXCEPT ![CHOOSE m \in DOMAIN counts : Chars(m) = strip(mood)] = @ + 1]
    ELSE counts

\* an append that opens the file for writing
append_chat_history_truncating(log, msg, response, ok) ==
    IF ok THEN <<[user |-> msg, response |-> response]>> ELSE log

\* _append_chat_history: the lines after it (a failed write is swallowed)
append_chat_history(log, msg, response, ok) ==
    IF ok THEN Append(log, [user |-> msg, response |-> response]) ELSE log

\* a test of the required fields that finds none missing
missing_none(keys) == {}

\* `missing = [k for k in required_keys if k not in data]`
missing(keys) == required_keys \ keys

\* EmotionChatbot.chat once the three counters are updated: save, log, answer
emotion_counted(sanitized, reply, counts, log, file) ==
    [out |-> [response |-> "JSON_TEXT", emoji |-> TRUE],
     counts |-> counts,
     file |-> save_mood_counts(counts, file, reply.save_ok), saved |-> reply.save_ok,
     log |-> append_chat_history(log, sanitized, reply.moods, reply.log_ok)]

\* EmotionChatbot.chat on the content of the reply
emotion_content(sanitized, reply, counts, log, file) ==
    IF ~reply.has_json \/ missing(reply.keys) # {}
    THEN [out |-> [response |-> reply.content], counts |-> counts, file |-> file,
          saved |-> FALSE,
          log |-> append_chat_history(log, sanitized, reply.content, reply.log_ok)]
    ELSE emotion_counted(sanitized, reply,
                         inc(inc(inc(counts, reply.moods[1]), reply.moods[2]),
                             reply.moods[3]),
                         log, file)

\* EmotionChatbot.chat after _sanitize_emotion_input
emotion_sanitized(sanitized, reply, counts, log, file) ==
    IF sanitized = BLOCKED
    THEN [out |-> [response |-> "FILTERED"], counts |-> counts, log |-> log, file |-> file,
          saved |-> FALSE]
    ELSE CASE reply.kind = "raise" -> [raise |-> TRUE]
           [] reply.kind = "function_call" ->
                IF reply.final_ok
                THEN [out |-> [response |-> reply.content], counts |-> counts,
                      file |-> file, saved |-> FALSE,
                      log |-> append_chat_history(log, sanitized, reply.content,
                                                  reply.log_ok)]
                ELSE [raise |-> TRUE]
           [] reply.kind = "content" ->
                emotion_content(sanitized, reply, counts, log, file)

\* EmotionChatbot.chat: [raise] or the dict returned, the counters and the files
emotion_chat(msg, reply, counts, log, file) ==
    IF Len(msg) = 0
    THEN [out |-> [response |-> "EMPTY_MESSAGE"], counts |-> counts, log |-> log,
          file |-> file, saved |-> FALSE]
    ELSE IF Len(msg) > MAX_EMOTION_MESSAGE_LENGTH
    THEN [out |-> [response |-> "EMOTION_TOO_LONG"], counts |-> counts, log |-> log,
          file |-> file, saved |-> FALSE]
    ELSE emotion_sanitized(sanitize_with(msg, SUBFLOW_PATTERNS, BLOCKED), reply, counts,
                           log, file)

\* emotion_processor after chatbot_instance.chat ended as c
emotion_chatted(msg, c, counts, log, file, mem) ==
    IF "raise" \in DOMAIN c
    THEN [raise |-> TRUE, instance |-> "openai", counts |-> counts, log |-> log,
          file |-> file]
    ELSE [out |-> c.out @@ [stats |-> TRUE],
          instance |-> "openai", counts |-> c.counts, log |-> c.log, file |-> c.file,
          memory |-> save_context(mem, msg, c.out.response)]

\* emotion_processor with the counters of its chatbot_instance
emotion_processor_with(msg, env, counts, log, file, mem) ==
    emotion_chatted(msg, emotion_chat(msg, env.reply, counts, log, file), counts, log,
                    file, mem)

\* emotion_processor: [raise] or the dict returned and the state it leaves;
\* the first call constructs chatbot_instance, which loads the counter file
emotion_processor(msg, env, instance, counts, log, file, mem) ==
    IF instance = "none" /\ ~env.probe
    THEN [raise |-> TRUE, instance |-> instance, counts |-> counts, log |-> log,
          file |-> file]
    ELSE emotion_processor_with(msg, env,
                                IF instance = "none"
                                THEN init_counts(load_mood_counts(file)) ELSE counts,
                                log, file, mem)

\* the response text of StatisticSystem.answer, which catches its own failures
stats_answer(readable) == IF readable THEN "STATS_SUMMARY" ELSE "STATS_FAILED"

\* stats_processor
stats_processor(msg, readable, mem) ==
    [out |-> [stats |-> TRUE, response |-> stats_answer(readable)],
     memory |-> save_context(mem, msg, stats_answer(readable))]

----------------------------------------------------------------------------
(* process_message *)

\* flow_processor: the reply normalized to its text, then parsed
flow_processor(reply) == parse(reply.text)

\* `except Exception as e: return {"error": str(e)}`
process_message_except == [error |-> "EXCEPTION"]

\* a dispatch that sends every decision to the help flow
handler_always_help(decision) == "HELP"

\* the if/elif chain of process_message: the handler a decision selects
handler_of(decision) ==
    IF decision \in {"RAG", "ANIMAL", "EMOTION", "STATS"} THEN decision ELSE "HELP"

\* Stage 1
Classify ==
    /\ pc = "classify"
    /\ \E reply \in LlmReplies \cup {[raise |-> TRUE]} :
          IF "raise" \in DOMAIN reply
          THEN /\ calls' = calls \o <<"classify", "raise">>
               /\ result' = chat_return(process_message_except)
               /\ pc' = "done"
               /\ UNCHANGED flow_decision
          ELSE /\ calls' = Append(calls, "classify")
               /\ flow_decision' = flow_processor(reply)
               /\ pc' = "dispatch"
               /\ UNCHANGED result
    /\ UNCHANGED <<llm, llm_trace, payload, user_message, memory, chatbot_instance,
                   emotion_counts, chat_log, nreq, snap, fn_vars, rag_vars, emo_vars>>

\* a router that takes an empty retrieval for a failure
after_retrieval_empty_raises(r) ==
    CASE r = "raise"  -> "raise"
      [] r = "empty"  -> "raise"
      [] r = "chunks" -> "rag_chain"

\* the router's step after a RAG retrieval that ended as r
after_retrieval(r) ==
    CASE r = "raise"  -> "raise"
      [] r = "empty"  -> "help"
      [] r = "chunks" -> "rag_chain"

\* the retrieval _process_rag_flow runs for a source ("" is the general one)
retrieval_call(src) == IF src = "" THEN "retrieve_top" ELSE "retrieve_by_source"

\* _process_rag_flow after a retrieval that ended as r, and process_message after
\* it; calls1 holds what ran so far
RagFlowWith(r, calls1, h) ==
    CASE after_retrieval(r) = "raise" ->
           /\ calls' = calls1
           /\ result' = chat_return(process_message_except)
           /\ pc' = "done"
           /\ UNCHANGED memory
      [] after_retrieval(r) = "help" ->
           /\ calls' = Append(calls1, "HELP")
           /\ memory' = h.memory
           /\ result' = chat_return(h.out @@ [flow_type |-> "HELP"])
           /\ pc' = "done"
      [] after_retrieval(r) = "rag_chain" ->
           /\ calls' = calls1
           /\ pc' = "rag_chain"
           /\ UNCHANGED <<memory, result>>

\* the retrieval as calls records it
RagRetrieved(r) ==
    RagFlowWith(r, calls \o <<"RAG", retrieval_call(rag_source(user_message)), r>>,
                process_help_flow(user_message, memory))

\* Stage 2, RAG: _process_rag_flow up to the retrieval, and the HELP fallback
RagFlow ==
    /\ pc = "dispatch"
    /\ handler_of(flow_decision) = "RAG"
    /\ \E o \in RetrievalOutcomes : RagRetrieved(retrieve(user_message, o))
    /\ UNCHANGED <<llm, llm_trace, payload, user_message, flow_decision,
                   chatbot_instance, emotion_counts, chat_log, nreq, snap, fn_vars, rag_vars, emo_vars>>

\* Stage 2, RAG: rag_chain on the retrieved context, save_context, the dict
RagChain ==
    /\ pc = "rag_chain"
    /\ \E ok \in BOOLEAN :
          IF ok
          THEN /\ calls' = Append(calls, "rag_chain")
               /\ memory' = save_context(memory, user_message, "RAG_ANSWER")
               /\ result' = chat_return([rag |-> TRUE, response |-> "RAG_ANSWER",
                                         rag_source |-> rag_source(user_message),
                                         flow_type |-> "RAG"])
          ELSE /\ calls' = calls \o <<"rag_chain", "raise">>
               /\ result' = chat_return(process_message_except)
               /\ UNCHANGED memory
    /\ pc' = "done"
    /\ UNCHANGED <<llm, llm_trace, payload, user_message, flow_decision,
                   chatbot_instance, emotion_counts, chat_log, nreq, snap, fn_vars, rag_vars, emo_vars>>

\* process_message returns the handler's dict with its flow_type
ReturnFrom(h, flow) ==
    /\ memory' = h.memory
    /\ result' = chat_return(h.out @@ [flow_type |-> flow])

\* how calls records the end of animal_processor's try block
route_log(routed) ==
    CASE routed = "image" -> "routed_image"
      [] routed = "text"  -> "routed_text"
      [] routed = "none"  -> "routed_none"
      [] routed = "raise" -> "routed_raise"

\* process_message after animal_processor, whose try block ended as routed
AnimalFlowWith(routed) ==
    /\ calls' = calls \o <<"ANIMAL", route_log(routed)>>
    /\ ReturnFrom(animal_processor(user_message, routed, memory), "ANIMAL")

\* Stage 2, ANIMAL
AnimalFlow ==
    /\ pc = "dispatch"
    /\ handler_of(flow_decision) = "ANIMAL"
    /\ \E o \in AnimalOutcomes : AnimalFlowWith(animal_try(user_message, o))
    /\ pc' = "done"
    /\ UNCHANGED <<llm, llm_trace, payload, user_message, flow_decision,
                   chatbot_instance, emotion_counts, chat_log, nreq, snap, fn_vars, rag_vars, emo_vars>>

\* process_message after emotion_processor ended as e
EmotionFlowWith(e) ==
    /\ chatbot_instance' = e.instance
    /\ emotion_counts' = e.counts
    /\ chat_log' = e.log
    /\ mood_file' = e.file
    /\ IF "raise" \in DOMAIN e
       THEN /\ calls' = calls \o <<"EMOTION", "raise">>
            /\ result' = chat_return(process_message_except)
            /\ UNCHANGED memory
       ELSE /\ calls' = Append(calls, "EMOTION")
            /\ ReturnFrom(e, "EMOTION")

\* Stage 2, EMOTION
EmotionFlow ==
    /\ pc = "dispatch"
    /\ handler_of(flow_decision) = "EMOTION"
    /\ \E env \in EmotionEnvs :
          EmotionFlowWith(emotion_processor(user_message, env, chatbot_instance,
                                            emotion_counts, chat_log, mood_file, memory))
    /\ pc' = "done"
    /\ UNCHANGED <<llm, llm_trace, payload, user_message, flow_decision, nreq, snap,
                   fn_vars, rag_vars, emotion_call>>

\* Stage 2, STATS
StatsFlow ==
    /\ pc = "dispatch"
    /\ handler_of(flow_decision) = "STATS"
    /\ \E readable \in BOOLEAN :
          ReturnFrom(stats_processor(user_message, readable, memory), "STATS")
    /\ calls' = Append(calls, "STATS")
    /\ pc' = "done"
    /\ UNCHANGED <<llm, llm_trace, payload, user_message, flow_decision,
                   chatbot_instance, emotion_counts, chat_log, nreq, snap, fn_vars, rag_vars, emo_vars>>

\* Stage 2, HELP (the elif and the else branch alike)
HelpFlow ==
    /\ pc = "dispatch"
    /\ handler_of(flow_decision) = "HELP"
    /\ ReturnFrom(process_help_flow(user_message, memory), "HELP")
    /\ calls' = Append(calls, "HELP")
    /\ pc' = "done"
    /\ UNCHANGED <<llm, llm_trace, payload, user_message, flow_decision,
                   chatbot_instance, emotion_counts, chat_log, nreq, snap, fn_vars, rag_vars, emo_vars>>

\* the worker takes the next request
NextRequest ==
    /\ pc = "done"
    /\ pc' = "idle"
    /\ payload' = <<>>
    /\ user_message' = <<>>
    /\ flow_decision' = ""
    /\ calls' = <<>>
    /\ result' = NoResult
    /\ UNCHANGED <<llm, llm_trace, memory, chatbot_instance, emotion_counts, chat_log,
                   nreq, snap, fn_vars, rag_vars, emo_vars>>

----------------------------------------------------------------------------
(* The service *)

InitReq ==
    /\ pc = "boot"
    /\ llm = "none"
    /\ llm_trace = <<>>
    /\ payload = <<>>
    /\ user_message = <<>>
    /\ flow_decision = ""
    /\ calls = <<>>
    /\ result = NoResult
    /\ memory = <<>>
    /\ chatbot_instance = "none"
    /\ emotion_counts = [m \in Moods |-> 0]
    /\ chat_log = <<>>
    /\ mood_file = EmptyMoodFile
    /\ emotion_call = NoEmotionCall
    /\ nreq = 0
    /\ snap = NoSnap

\* no call of a pure function under check
InitFn ==
    /\ fn_in = <<>>
    /\ fn_out = <<>>
    /\ fn_pc = "unused"

\* RagService() as constructed, nothing on disk, no call
NoCall ==
    [op |-> "idle", pc |-> "idle", query |-> "none", inner |-> FALSE, polls |-> 0,
     ensure |-> "none", col0 |-> {}, count_ok |-> FALSE, adds |-> 0, indexed |-> 0,
     out |-> "none"]

InitRag ==
    /\ rag_service = [client |-> FALSE, embedder |-> FALSE,
                      model_loading |-> FALSE, model_loaded |-> FALSE,
                      embedder_of |-> "none", loads |-> <<>>]
    /\ loader = "unstarted"
    /\ collection = [exists |-> FALSE, ids |-> {}]
    /\ rag_call = NoCall

Init ==
    /\ InitReq
    /\ InitFn
    /\ InitRag

Next ==
    \/ GetLlmPrimary
    \/ GetLlmSecondary
    \/ Chat
    \/ Classify
    \/ RagFlow
    \/ RagChain
    \/ AnimalFlow
    \/ EmotionFlow
    \/ StatsFlow
    \/ HelpFlow
    \/ NextRequest

Spec == Init /\ [][Next]_vars

----------------------------------------------------------------------------
(* RagService: the embedding model, the collection, the index, retrieval  *)

\* the sleeps of the wait loop of _get_collection
POLL_LIMIT == 30

\* the ids ensure_index may build from the PDF directory ({} when no text is found)
PdfDocSets ==
    { {}, {"cat_care.pdf::chunk_0"},
      {"cat_care.pdf::chunk_0", "cat_care.pdf::chunk_1", "parrot_care.pdf::chunk_0"} }

\* what a previous run of the process may have left on disk
StoredCollections ==
    { [exists |-> FALSE, ids |-> {}], [exists |-> TRUE, ids |-> {}],
      [exists |-> TRUE, ids |-> {"cat_care.pdf::chunk_0"}],
      [exists |-> TRUE, ids |-> {"cat_care.pdf::chunk_0", "cat_care.pdf::chunk_1",
                                 "parrot_care.pdf::chunk_0"}] }

RagOps == {"ensure_index", "retrieve_top", "retrieve_by_source"}

\* how the checks at the head of retrieve_top / retrieve_by_source see the query
QueryKinds == {"empty", "too_long", "blocked", "ok"}

\* an exception leaves the call
RagRaise(call) == [call EXCEPT !.pc = "returned", !.out = "raise"]

\* _init_embedder by thread who: the new model becomes self._embedder, whatever
\* was there; embedder_of names the thread whose model self._embedder is and
\* loads lists the models built so far
init_embedder(service, who) ==
    [service EXCEPT !.embedder = TRUE, !.model_loaded = TRUE,
                    !.embedder_of = who, !.loads = Append(@, who)]

\* preload_model_async, called once when the application module is imported
Preload ==
    /\ loader = "unstarted"
    /\ IF rag_service.model_loading \/ rag_service.model_loaded
       THEN /\ loader' = "ended"
            /\ UNCHANGED rag_service
       ELSE /\ loader' = "running"
            /\ rag_service' = [rag_service EXCEPT !.model_loading = TRUE]
    /\ UNCHANGED <<collection, rag_call, req_vars, fn_vars, emo_vars>>

\* load_in_background: _init_embedder, which may raise
LoaderLoad ==
    /\ loader = "running"
    /\ \E ok \in BOOLEAN :
          rag_service' = IF ok THEN init_embedder(rag_service, "loader") ELSE rag_service
    /\ loader' = "finally"
    /\ UNCHANGED <<collection, rag_call, req_vars, fn_vars, emo_vars>>

\* load_in_background: finally
LoaderFinally ==
    /\ loader = "finally"
    /\ rag_service' = [rag_service EXCEPT !.model_loading = FALSE]
    /\ loader' = "ended"
    /\ UNCHANGED <<collection, rag_call, req_vars, fn_vars, emo_vars>>

\* a caller enters ensure_index, retrieve_top or retrieve_by_source; the
\* retrievals return [] at once for a query their checks refuse
RagCallStart ==
    /\ loader # "unstarted"
    /\ rag_call.op = "idle"
    /\ \E op \in RagOps, q \in QueryKinds :
          rag_call' =
             IF op = "ensure_index"
             THEN [NoCall EXCEPT !.op = op, !.pc = "gc_client", !.inner = TRUE]
             ELSE IF q # "ok"
             THEN [NoCall EXCEPT !.op = op, !.query = q, !.pc = "returned", !.out = "empty"]
             ELSE [NoCall EXCEPT !.op = op, !.query = q, !.pc = "gc_client"]
    /\ UNCHANGED <<rag_service, loader, collection, req_vars, fn_vars, emo_vars>>

\* _get_collection: `if self._client is None: self._init_client()`
GcClient ==
    /\ rag_call.pc = "gc_client"
    /\ IF rag_service.client
       THEN /\ rag_call' = [rag_call EXCEPT !.pc = "gc_embedder"]
            /\ UNCHANGED rag_service
       ELSE \E ok \in BOOLEAN :
               IF ok
               THEN /\ rag_service' = [rag_service EXCEPT !.client = TRUE]
                    /\ rag_call' = [rag_call EXCEPT !.pc = "gc_embedder"]
               ELSE /\ rag_call' = RagRaise(rag_call)
                    /\ UNCHANGED rag_service
    /\ UNCHANGED <<loader, collection, req_vars, fn_vars, emo_vars>>

\* _get_collection: `if self._embedder is None: if self._model_loading:`
GcEmbedder ==
    /\ rag_call.pc = "gc_embedder"
    /\ rag_call' = [rag_call EXCEPT !.pc =
                       IF rag_service.embedder THEN "gc_col"
                       ELSE IF rag_service.model_loading THEN "gc_poll"
                       ELSE "gc_load"]
    /\ UNCHANGED <<rag_service, loader, collection, req_vars, fn_vars, emo_vars>>

\* a wait loop that never gives up
poll_without_limit(polls) == TRUE

\* `for _ in range(30)`: whether another sleep follows polls sleeps
poll_again(polls) == polls < POLL_LIMIT

\* one turn of the wait loop: break once the model is there, else sleep a second
GcPoll ==
    /\ rag_call.pc = "gc_poll"
    /\ rag_call' =
          IF rag_service.embedder THEN [rag_call EXCEPT !.pc = "gc_recheck"]
          ELSE IF poll_again(rag_call.polls)
          THEN [rag_call EXCEPT !.polls = IF @ <= POLL_LIMIT THEN @ + 1 ELSE @]
          ELSE [rag_call EXCEPT !.pc = "gc_recheck"]
    /\ UNCHANGED <<rag_service, loader, collection, req_vars, fn_vars, emo_vars>>

\* a request that leaves the model to the background thread after its wait
after_wait_trusting(embedder) == "gc_col"

\* the second `if self._embedder is None: self._init_embedder()`
after_wait(embedder) == IF embedder THEN "gc_col" ELSE "gc_load"

\* _get_collection: the second `if self._embedder is None`
GcRecheck ==
    /\ rag_call.pc = "gc_recheck"
    /\ rag_call' = [rag_call EXCEPT !.pc = after_wait(rag_service.embedder)]
    /\ UNCHANGED <<rag_service, loader, collection, req_vars, fn_vars, emo_vars>>

\* _get_collection: the synchronous _init_embedder
GcLoad ==
    /\ rag_call.pc = "gc_load"
    /\ \E ok \in BOOLEAN :
          IF ok
          THEN /\ rag_service' = init_embedder(rag_service, "request")
               /\ rag_call' = [rag_call EXCEPT !.pc = "gc_col"]
          ELSE /\ rag_call' = RagRaise(rag_call)
               /\ UNCHANGED rag_service
    /\ UNCHANGED <<loader, collection, req_vars, fn_vars, emo_vars>>

\* _get_collection: get_collection, else create_collection; the retrievals call
\* _get_collection themselves and once more through ensure_index
GcCol ==
    /\ rag_call.pc = "gc_col"
    /\ \E ok \in BOOLEAN :
          IF ok
          THEN /\ collection' = [collection EXCEPT !.exists = TRUE]
               /\ rag_call' = IF rag_call.inner THEN [rag_call EXCEPT !.pc = "e_count"]
                              ELSE [rag_call EXCEPT !.pc = "gc_client", !.inner = TRUE]
          ELSE /\ rag_call' = RagRaise(rag_call)
               /\ UNCHANGED collection
    /\ UNCHANGED <<rag_service, loader, req_vars, fn_vars, emo_vars>>

\* where a call goes when its ensure_index returns
after_ensure(op) == IF op = "ensure_index" THEN "returned" ELSE "query"

\* an ensure_index that indexes whatever the count
ensure_never_skips(count) == FALSE

\* ensure_index: `if count > 0`
ensure_skips(count) == count > 0

\* ensure_index once count is known (0 when col.count() raised)
EnsureCounted(count, ok) ==
    rag_call' =
       IF ensure_skips(count)
       THEN [rag_call EXCEPT !.col0 = collection.ids, !.count_ok = ok,
                             !.ensure = "existing", !.indexed = count,
                             !.pc = after_ensure(rag_call.op),
                             !.out = IF rag_call.op = "ensure_index" THEN "ok" ELSE @]
       ELSE [rag_call EXCEPT !.col0 = collection.ids, !.count_ok = ok, !.pc = "e_add"]

\* ensure_index: col.count() and the test of the count
ECount ==
    /\ rag_call.pc = "e_count"
    /\ \E ok \in BOOLEAN :
          EnsureCounted(IF ok THEN Cardinality(collection.ids) ELSE 0, ok)
    /\ UNCHANGED <<rag_service, loader, collection, req_vars, fn_vars, emo_vars>>

\* how col.add fares: at once, on the retry with smaller batches, or not at all
AddOutcomes == {"ok", "retry_ok", "fail"}

\* ensure_index: the scan of the PDFs, the chunks, the batches of col.add
EAdd ==
    /\ rag_call.pc = "e_add"
    /\ \E docs \in PdfDocSets, o \in AddOutcomes :
          /\ collection' = IF o = "fail" THEN collection
                           ELSE [collection EXCEPT !.ids = @ \cup docs]
          /\ rag_call' = [rag_call EXCEPT
                             !.ensure = "indexed",
                             !.indexed = Cardinality(docs),
                             !.adds = IF docs = {} THEN 0 ELSE IF o = "ok" THEN 1 ELSE 2,
                             !.pc = after_ensure(rag_call.op),
                             !.out = IF rag_call.op = "ensure_index" THEN "ok" ELSE @]
    /\ UNCHANGED <<rag_service, loader, req_vars, fn_vars, emo_vars>>

\* col.query inside its try: results, or [] when it raises
query_result(o, ids) ==
    CASE o = "raise" -> "empty"
      [] o = "miss"  -> "empty"
      [] o = "hit"   -> IF ids = {} THEN "empty" ELSE "chunks"

\* retrieve_top / retrieve_by_source: the query and the list returned
Query ==
    /\ rag_call.pc = "query"
    /\ \E o \in {"hit", "miss", "raise"} :
          rag_call' = [rag_call EXCEPT !.pc = "returned",
                                       !.out = query_result(o, collection.ids)]
    /\ UNCHANGED <<rag_service, loader, collection, req_vars, fn_vars, emo_vars>>

\* the caller has its answer
RagCallEnd ==
    /\ rag_call.pc = "returned"
    /\ rag_call' = NoCall
    /\ UNCHANGED <<rag_service, loader, collection, req_vars, fn_vars, emo_vars>>

InitRagService ==
    /\ InitReq
    /\ InitFn
    /\ rag_service = [client |-> FALSE, embedder |-> FALSE,
                      model_loading |-> FALSE, model_loaded |-> FALSE,
                      embedder_of |-> "none", loads |-> <<>>]
    /\ loader = "unstarted"
    /\ collection \in StoredCollections
    /\ rag_call = NoCall

\* the steps of the caller's thread
RagStep ==
    \/ RagCallStart
    \/ GcClient
    \/ GcEmbedder
    \/ GcPoll
    \/ GcRecheck
    \/ GcLoad
    \/ GcCol
    \/ ECount
    \/ EAdd
    \/ Query
    \/ RagCallEnd

NextRag ==
    \/ Preload
    \/ LoaderLoad
    \/ LoaderFinally
    \/ RagStep

\* the caller's thread is scheduled as long as it has a step to take: its
\* sleeps return and its calls end
SpecRag == InitRagService /\ [][NextRag]_vars /\ WF_vars(RagStep)

----------------------------------------------------------------------------
(* RagService._chunk_text, one turn of its loop per step                   *)

\* the defaults of _chunk_text
CHUNK_SIZE == 900
CHUNK_OVERLAP == 150

Min(a, b) == IF a <= b THEN a ELSE b
Max(a, b) == IF a >= b THEN a ELSE b

\* the longest text tried fills this many windows after the first
MaxChunkWindows == 3

ChunkAlphabet == <<"a", "b", "c", "d", "e", "f", "g">>

\* n characters that no shift by a multiple of the overlap maps onto themselves
ChunkBody(n) == Tup([i \in 1..n |-> ChunkAlphabet[((i - 1) % 7) + 1]], n)

\* lengths at and next to the places where the number of chunks changes
ChunkLengths ==
    {0, 1, 2, 450}
       \cup { k * (CHUNK_SIZE - CHUNK_OVERLAP) + CHUNK_OVERLAP + d :
                 k \in 0..MaxChunkWindows, d \in {-1, 0, 1} }

\* the texts, bare or with white space around them
ChunkInputs ==
    { lead \o ChunkBody(n) \o trail :
         n \in ChunkLengths, lead \in {<<>>, <<" ">>}, trail \in {<<>>, <<"\n">>} }

\* a loop that tests `end == n` in vain
at_end_never(end, n) == FALSE

\* `if end == n: break`
at_end(end, n) == end = n

\* a window that starts where the last one ended
next_start_no_overlap(start, end, overlap) == Max(end, start + 1)

\* `start = max(end - chunk_overlap, start + 1)`
next_start(start, end, overlap) == Max(end - overlap, start + 1)

\* `text = (text or "").strip()`, `if not text: return []`, `start = 0`
ChunkEnterWith(text) ==
    /\ fn_out' = [text |-> text, start |-> 0, chunks |-> <<>>]
    /\ fn_pc' = IF Len(text) = 0 THEN "out" ELSE "loop"

ChunkEnter ==
    /\ fn_pc = "in"
    /\ ChunkEnterWith(strip(fn_in))
    /\ UNCHANGED <<fn_in, req_vars, rag_vars, emo_vars>>

\* the body of `while start < n` for a window that ends at end
ChunkWindow(end, n) ==
    IF at_end(end, n)
    THEN /\ fn_out' = [fn_out EXCEPT
                          !.chunks = Append(@, SubSeq(fn_out.text, fn_out.start + 1, end))]
         /\ fn_pc' = "out"
    ELSE /\ fn_out' = [fn_out EXCEPT
                          !.chunks = Append(@, SubSeq(fn_out.text, fn_out.start + 1, end)),
                          !.start = next_start(fn_out.start, end, CHUNK_OVERLAP)]
         /\ fn_pc' = "loop"

\* one test of `while start < n` and, when it holds, one turn of the loop
ChunkLoop ==
    /\ fn_pc = "loop"
    /\ IF fn_out.start < Len(fn_out.text)
       THEN ChunkWindow(Min(Len(fn_out.text), fn_out.start + CHUNK_SIZE), Len(fn_out.text))
       ELSE fn_pc' = "out" /\ UNCHANGED fn_out
    /\ UNCHANGED <<fn_in, req_vars, rag_vars, emo_vars>>

InitChunk ==
    /\ InitReq
    /\ InitRag
    /\ fn_in \in ChunkInputs
    /\ fn_out = [text |-> <<>>, start |-> 0, chunks |-> <<>>]
    /\ fn_pc = "in"

NextChunk ==
    \/ ChunkEnter
    \/ ChunkLoop

\* the loop runs in one thread that nothing suspends for ever
SpecChunk == InitChunk /\ [][NextChunk]_vars /\ WF_vars(ChunkEnter \/ ChunkLoop)

----------------------------------------------------------------------------
(* The emotion engine and the statistics engine over their data files     *)

\* chats of one history
MaxEmotionChats == 1

JsonNumber(n) == [type |-> "number", text |-> int_to_digits(n)]

\* mood_counter.txt as an earlier run or an editor may have left it
StoredMoodFiles ==
    { [kind |-> "absent"],
      [kind |-> "text"],
      EmptyMoodFile,
      json_dumps_counts([m \in Moods |-> CASE m = "Mutlu" -> 2
                                           [] m = "Üzgün" -> 12
                                           [] OTHER -> 0]),
      [kind |-> "object",
       items |-> << [key |-> "Mutlu", value |-> JsonNumber(2)],
                    [key |-> "Kizgin", value |-> JsonNumber(5)] >>],
      [kind |-> "object",
       items |-> << [key |-> "Mutlu", value |-> [type |-> "string", text |-> Chars("çok")]] >>] }

\* chat_history.txt as an earlier run may have left it
StoredChatLogs ==
    { <<>>, <<[user |-> Chars("selam"), response |-> "Merhaba!"]>> }

\* a message that passes the checks of chat with every reply, and an empty, an
\* over-long and a blocked message with one
EmotionCalls ==
    { <<Chars("bugün çok mutluyum"), r>> : r \in EmotionReplies }
       \cup { <<msg, EmotionReply("content", FALSE, "Bugün hava güzel.", FALSE, {},
                                  NoMoods, TRUE, TRUE)>> :
                 msg \in {<<>>, Rep("a", MAX_EMOTION_MESSAGE_LENGTH + 1),
                          Chars("javascript:x")} }

\* the emotion argument of compute_stats after _normalize_emotion
StatsEmotions == {"none", "Mutlu"}

\* emotion_system is imported: the data files are created when they are missing
EmotionImport ==
    /\ emotion_call.op = "none"
    /\ \E ok \in BOOLEAN :
          mood_file' = IF mood_file.kind = "absent" /\ ok THEN EmptyMoodFile ELSE mood_file
    /\ emotion_call' = [op |-> "import", n |-> emotion_call.n, saved |-> emotion_call.saved]
    /\ UNCHANGED <<pc, llm, llm_trace, payload, user_message, flow_decision, calls, result,
                   memory, chatbot_instance, emotion_counts, chat_log, nreq, snap,
                   fn_vars, rag_vars>>

\* EmotionChatbot(client)
EmotionConstruct ==
    /\ emotion_call.op # "none"
    /\ chatbot_instance = "none"
    /\ chatbot_instance' = "openai"
    /\ emotion_counts' = init_counts(load_mood_counts(mood_file))
    /\ emotion_call' = [op |-> "init", n |-> emotion_call.n, saved |-> emotion_call.saved]
    /\ UNCHANGED <<pc, llm, llm_trace, payload, user_message, flow_decision, calls, result,
                   memory, chat_log, mood_file, nreq, snap, fn_vars, rag_vars>>

\* chatbot_instance.chat(msg) ended as c
EmotionChatWith(msg, reply, c) ==
    /\ emotion_counts' = IF "raise" \in DOMAIN c THEN emotion_counts ELSE c.counts
    /\ chat_log' = IF "raise" \in DOMAIN c THEN chat_log ELSE c.log
    /\ mood_file' = IF "raise" \in DOMAIN c THEN mood_file ELSE c.file
    /\ emotion_call' =
          [op |-> "chat", n |-> emotion_call.n + 1,
           saved |-> IF "raise" \notin DOMAIN c /\ c.saved
                     THEN [written |-> TRUE, counts |-> c.counts] ELSE emotion_call.saved,
           msg |-> msg, reply |-> reply,
           ret |-> IF "raise" \in DOMAIN c THEN c ELSE c.out,
           before |-> [counts |-> emotion_counts, log |-> chat_log, file |-> mood_file]]

\* chatbot_instance.chat(msg)
EmotionChat ==
    /\ chatbot_instance = "openai"
    /\ emotion_call.n < MaxEmotionChats
    /\ \E call \in EmotionCalls :
          EmotionChatWith(call[1], call[2],
                          emotion_chat(call[1], call[2], emotion_counts, chat_log, mood_file))
    /\ UNCHANGED <<pc, llm, llm_trace, payload, user_message, flow_decision, calls, result,
                   memory, chatbot_instance, nreq, snap, fn_vars, rag_vars>>

\* the process ends; the counters of its chatbot_instance are gone, the files stay
EmotionExit ==
    /\ chatbot_instance = "openai"
    /\ chatbot_instance' = "none"
    /\ emotion_counts' = [m \in Moods |-> 0]
    /\ emotion_call' = [op |-> "none", n |-> emotion_call.n, saved |-> emotion_call.saved]
    /\ UNCHANGED <<pc, llm, llm_trace, payload, user_message, flow_decision, calls, result,
                   memory, chat_log, mood_file, nreq, snap, fn_vars, rag_vars>>

\* StatisticSystem._read_persisted_counts
read_persisted_counts(file) ==
    IF counts_readable(file) THEN counts_dict(file.items)
    ELSE [m \in Moods |-> 0]

\* the keys of a dict read from the file, in the order of the file
dict_keys(file, counts) ==
    IF counts_readable(file)
    THEN Tup([i \in 1..Len(file.items) |-> file.items[i].key], Len(file.items))
    ELSE allowed_moods

\* a summary with a clause for every mood, the zero counts too
summary_parts_with_zeros(keys, counts) ==
    LET part(k) == [cnt |-> counts[k], mood |-> lower(Chars(k))]
    IN  Tup([i \in 1..Len(keys) |-> part(keys[i])], Len(keys))

\* `[f"{cnt} kez {m.lower()}" for m, cnt in counts.items() if cnt > 0]`
summary_parts(keys, counts) ==
    LET part(k) == [cnt |-> counts[k], mood |-> lower(Chars(k))]
        parts == Tup([i \in 1..Len(keys) |-> part(keys[i])], Len(keys))
    IN  SelectSeq(parts, LAMBDA q : q.cnt > 0)

\* `", ".join(parts) if parts else "Henüz duygu kaydı yok"`: the clauses and
\* which sentence they make
joined_summary(period, counts, parts) ==
    [counts |-> counts, period |-> period, summary |-> parts,
     sentence |-> IF Len(parts) = 0 THEN "no_records" ELSE "clauses"]

\* compute_stats once the counts of the period are read
compute_stats_with(period, keys, counts, emotion) ==
    IF emotion # "none"
    THEN [counts |-> counts, period |-> period, emotion |-> emotion,
          sentence |-> "filter",
          summary |-> <<[cnt |-> IF emotion \in DOMAIN counts THEN counts[emotion] ELSE 0,
                         mood |-> Chars(emotion)]>>]
    ELSE joined_summary(period, counts, summary_parts(keys, counts))

\* StatisticSystem.compute_stats(period="all", emotion)
compute_stats(file, emotion) ==
    compute_stats_with("all", dict_keys(file, read_persisted_counts(file)),
                       read_persisted_counts(file), emotion)

\* the statistics engine answers an all-time question
EmotionStats ==
    /\ emotion_call.op \in {"import", "init", "chat"}
    /\ \E emotion \in StatsEmotions :
          emotion_call' = [op |-> "stats", n |-> emotion_call.n, saved |-> emotion_call.saved,
                           ret |-> compute_stats(mood_file, emotion)]
    /\ UNCHANGED <<pc, llm, llm_trace, payload, user_message, flow_decision, calls, result,
                   memory, chatbot_instance, emotion_counts, chat_log, mood_file, nreq, snap,
                   fn_vars, rag_vars>>

InitEmotion ==
    /\ pc = "boot"
    /\ llm = "none"
    /\ llm_trace = <<>>
    /\ payload = <<>>
    /\ user_message = <<>>
    /\ flow_decision = ""
    /\ calls = <<>>
    /\ result = NoResult
    /\ memory = <<>>
    /\ chatbot_instance = "none"
    /\ emotion_counts = [m \in Moods |-> 0]
    /\ chat_log \in StoredChatLogs
    /\ mood_file \in StoredMoodFiles
    /\ emotion_call = NoEmotionCall
    /\ nreq = 0
    /\ snap = NoSnap
    /\ InitFn
    /\ InitRag

NextEmotion ==
    \/ EmotionImport
    \/ EmotionConstruct
    \/ EmotionChat
    \/ EmotionExit
    \/ EmotionStats

SpecEmotion == InitEmotion /\ [][NextEmotion]_vars

----------------------------------------------------------------------------
(* StatisticSystem.answer: the question, the period, the counts, the summary *)

\* lines of the seeded logs
MaxLogLines == 2

\* datetime.now().strftime("%Y-%m-%d") on two consecutive days
Days == {Chars("2025-03-01"), Chars("2025-03-02")}

\* a line of chat_history.txt as json.loads reads it: the timestamp and what
\* json.loads finds in the response (an object with its three mood fields,
\* another JSON value, or no JSON)
LogLine(day, time, kind, moods) ==
    [timestamp |-> Chars(day) \o Chars(" ") \o Chars(time),
     response |-> [kind |-> kind, moods |-> moods]]

LogLines ==
    { LogLine("2025-03-02", "09:15:00", "object", <<"Mutlu", "Mutlu", " Üzgün ">>),
      LogLine("2025-03-01", "23:59:59", "object", <<"Mutlu", "Üzgün", "Neseli">>),
      LogLine("2025-03-02", "10:00:00", "text", NoMoods),
      LogLine("2025-03-02", "11:30:00", "scalar", NoMoods),
      LogLine("2025-03-01", "08:00:00", "object", <<"Yorgun", "", "">>) }

RECURSIVE LogsOfLength(_)
LogsOfLength(n) ==
    IF n = 0 THEN {<<>>}
    ELSE { Append(log, line) : log \in LogsOfLength(n - 1), line \in LogLines }

\* three records naming Mutlu on the second day after two on the first
ExampleLog ==
    << LogLine("2025-03-01", "10:00:00", "object", <<"Mutlu", "Neseli", "Neseli">>),
       LogLine("2025-03-01", "18:00:00", "object", <<"Neseli", "Mutlu", "Neseli">>),
       LogLine("2025-03-02", "08:00:00", "object", <<"Mutlu", "Neseli", "Neseli">>),
       LogLine("2025-03-02", "09:00:00", "object", <<"Neseli", "Neseli", "Mutlu">>),
       LogLine("2025-03-02", "09:30:00", "object", <<"Neseli", " Mutlu", "Neseli">>) >>

SeededLogs == {ExampleLog} \cup UNION { LogsOfLength(n) : n \in 0..MaxLogLines }

\* mood_counter.txt as the emotion engine leaves it
SeededMoodFiles ==
    { [kind |-> "absent"],
      EmptyMoodFile,
      json_dumps_counts([m \in Moods |-> 0]),
      json_dumps_counts([m \in Moods |-> CASE m = "Mutlu" -> 5
                                           [] m = "Yorgun" -> 1
                                           [] OTHER -> 0]) }

StatsMessages ==
    { Chars("istatistik"),
      Chars("Bugün kaç kez mutlu oldum"),
      Chars("today stats"),
      Chars("GÜNLÜK özet"),
      Chars("ne kadar yorgun ve üzgün oldum"),
      Chars("tüm zamanlar: öfkeli?"),
      Chars("get_emotion_stats(period=\"all\") today"),
      Chars("get_emotion_stats( emotion = \"Yorgun\" , period = \"today\" )"),
      Chars("mutlu get_emotion_stats(emotion=\"üzgün\")"),
      Chars("get_emotion_stats(period=\"today\", emotion=\"neseli\") yorgun"),
      Chars("get_emotion_stats(emotion=\"\")"),
      Chars("get_emotion_stats(period=\"today\" mutlu") }

\* a test of the date that lets every line pass
stamped_any_day(ts, today) == TRUE

\* `ts.startswith(today_str)`
stamped_today(ts, today) == At(ts, 1, today)

\* the three mood fields of one line, counted like `if val in counts: counts[val] += 1`
count_line(counts, line, today) ==
    IF stamped_today(line.timestamp, today) /\ line.response.kind = "object"
    THEN inc(inc(inc(counts, line.response.moods[1]), line.response.moods[2]),
             line.response.moods[3])
    ELSE counts

RECURSIVE count_lines(_, _, _, _)
count_lines(counts, log, k, today) ==
    IF k > Len(log) THEN counts
    ELSE count_lines(count_line(counts, log[k], today), log, k + 1, today)

\* StatisticSystem._read_today_counts_from_chat_history
read_today_counts(log, today) == count_lines([m \in Moods |-> 0], log, 1, today)

\* a period that only the word "bugün" makes today
keyword_period_one_word(t) == IF Contains(t, Chars("bugün")) THEN "today" ELSE "all"

\* `"today" if any(k in t for k in ["bugün", "today", "günlük"]) else "all"`
keyword_period(t) ==
    IF ContainsAny(t, {Chars("bugün"), Chars("today"), Chars("günlük")})
    THEN "today" ELSE "all"

\* `for m in self.allowed_moods: if m.lower() in t: ... break`
keyword_emotion(t) ==
    IF \E k \in 1..Len(allowed_moods) : Contains(t, lower(Chars(allowed_moods[k])))
    THEN allowed_moods[CHOOSE k \in 1..Len(allowed_moods) :
                          /\ Contains(t, lower(Chars(allowed_moods[k])))
                          /\ \A j \in 1..(k - 1) : ~Contains(t, lower(Chars(allowed_moods[j])))]
    ELSE "none"

\* _normalize_emotion
normalize_emotion(name) ==
    IF \E m \in Moods : lower(Chars(m)) = lower(strip(name))
    THEN CHOOSE m \in Moods : lower(Chars(m)) = lower(strip(name))
    ELSE "none"

\* the end of the \s* that starts at i
skip_spaces(t, i) ==
    CHOOSE j \in i..(Len(t) + 1) :
        /\ j = Len(t) + 1 \/ ~IsSpace(t[j])
        /\ \A k \in i..(j - 1) : IsSpace(t[k])

\* the place after lit and the \s* behind it when lit stands at i, else 0
after_lit(t, i, lit) ==
    IF i # 0 /\ At(t, i, Chars(lit)) THEN skip_spaces(t, i + Len(lit)) ELSE 0

\* `"([^"]+)"` at i: the group and the place after the closing quote and \s*
quoted_at(t, i) ==
    IF i # 0 /\ At(t, i, <<"\"">>) /\ i + 1 <= Len(t) /\ t[i + 1] # "\""
          /\ \E q \in (i + 2)..Len(t) : t[q] = "\""
    THEN LET q == CHOOSE q \in (i + 2)..Len(t) :
                      t[q] = "\"" /\ \A k \in (i + 1)..(q - 1) : t[k] # "\""
         IN  [group |-> SubSeq(t, i + 1, q - 1), next |-> skip_spaces(t, q + 1)]
    ELSE [group |-> <<>>, next |-> 0]

\* `"(today|all)"` at i
period_at(t, i) ==
    IF i # 0 /\ At(t, i, Chars("\"today\""))
    THEN [group |-> Chars("today"), next |-> skip_spaces(t, i + 7)]
    ELSE IF i # 0 /\ At(t, i, Chars("\"all\""))
    THEN [group |-> Chars("all"), next |-> skip_spaces(t, i + 5)]
    ELSE [group |-> <<>>, next |-> 0]

NoMatch == [ok |-> FALSE, emotion |-> <<>>, period |-> <<>>]

\* the tail of a pattern: the optional second argument, then `\)`
call_tail(t, first, second, first_is_emotion) ==
    IF second.next # 0 /\ At(t, second.next, <<")">>)
    THEN [ok |-> TRUE,
          emotion |-> IF first_is_emotion THEN first.group ELSE second.group,
          period |-> IF first_is_emotion THEN second.group ELSE first.group]
    ELSE IF first.next # 0 /\ At(t, first.next, <<")">>)
    THEN [ok |-> TRUE,
          emotion |-> IF first_is_emotion THEN first.group ELSE <<>>,
          period |-> IF first_is_emotion THEN <<>> ELSE first.group]
    ELSE NoMatch

\* m1 anchored at i: get_emotion_stats(emotion="..."[, period="today|all"])
match_emotion_first_with(t, first) ==
    call_tail(t, first,
              period_at(t, after_lit(t, after_lit(t, after_lit(t, first.next, ","),
                                                  "period"), "=")),
              TRUE)

match_emotion_first(t, i) ==
    match_emotion_first_with(
       t, quoted_at(t, after_lit(t, after_lit(t, after_lit(t, i, "get_emotion_stats("),
                                              "emotion"), "=")))

\* m2 anchored at i: get_emotion_stats(period="today|all"[, emotion="..."])
match_period_first_with(t, first) ==
    call_tail(t, first,
              quoted_at(t, after_lit(t, after_lit(t, after_lit(t, first.next, ","),
                                                  "emotion"), "=")),
              FALSE)

match_period_first(t, i) ==
    match_period_first_with(
       t, period_at(t, after_lit(t, after_lit(t, after_lit(t, i, "get_emotion_stats("),
                                              "period"), "=")))

\* re.search: the leftmost match
search_emotion_first(t) ==
    IF \E i \in 1..Len(t) : match_emotion_first(t, i).ok
    THEN match_emotion_first(t, CHOOSE i \in 1..Len(t) :
                                   /\ match_emotion_first(t, i).ok
                                   /\ \A j \in 1..(i - 1) : ~match_emotion_first(t, j).ok)
    ELSE NoMatch

search_period_first(t) ==
    IF \E i \in 1..Len(t) : match_period_first(t, i).ok
    THEN match_period_first(t, CHOOSE i \in 1..Len(t) :
                                  /\ match_period_first(t, i).ok
                                  /\ \A j \in 1..(i - 1) : ~match_period_first(t, j).ok)
    ELSE NoMatch

\* `x or y` for an emotion, a period
or_else(x, y) == IF x = "none" THEN y ELSE x
group_or(group, period) == IF Len(group) = 0 THEN period
                           ELSE IF group = Chars("today") THEN "today" ELSE "all"

\* _detect_period_and_emotion once the keywords and the two patterns are tried
detected_with(period, emotion, m1, m2) ==
    IF m1.ok
    THEN [period |-> group_or(m1.period, period),
          emotion |-> or_else(normalize_emotion(m1.emotion), emotion)]
    ELSE IF m2.ok
    THEN [period |-> group_or(m2.period, period),
          emotion |-> IF Len(m2.emotion) = 0 THEN emotion
                      ELSE or_else(normalize_emotion(m2.emotion), emotion)]
    ELSE [period |-> period, emotion |-> emotion]

\* _detect_period_and_emotion on `t = (user_message or "").lower()`
detect_lowered(t) ==
    detected_with(keyword_period(t), keyword_emotion(t),
                  search_emotion_first(t), search_period_first(t))

detect_period_and_emotion(msg) == detect_lowered(lower(msg))

\* compute_stats(period, emotion)
compute_stats_for(period, emotion, file, log, today) ==
    IF period = "today"
    THEN compute_stats_with("today", allowed_moods, read_today_counts(log, today), emotion)
    ELSE compute_stats(file, emotion)

\* StatisticSystem.answer
answer_detected(d, file, log, today) ==
    [stats |-> TRUE] @@ compute_stats_for(d.period, d.emotion, file, log, today)

answer(msg, file, log, today) ==
    answer_detected(detect_period_and_emotion(msg), file, log, today)

\* the statistics engine answers a question on some day
StatsAnswer ==
    /\ emotion_call.op = "none"
    /\ \E msg \in StatsMessages, today \in Days :
          emotion_call' = [op |-> "answer", n |-> 0, saved |-> emotion_call.saved,
                           msg |-> msg, today |-> today,
                           ret |-> answer(msg, mood_file, chat_log, today)]
    /\ UNCHANGED <<pc, llm, llm_trace, payload, user_message, flow_decision, calls, result,
                   memory, chatbot_instance, emotion_counts, chat_log, mood_file, nreq, snap,
                   fn_vars, rag_vars>>

\* the next question
StatsDone ==
    /\ emotion_call.op = "answer"
    /\ emotion_call' = NoEmotionCall
    /\ UNCHANGED <<pc, llm, llm_trace, payload, user_message, flow_decision, calls, result,
                   memory, chatbot_instance, emotion_counts, chat_log, mood_file, nreq, snap,
                   fn_vars, rag_vars>>

InitStats ==
    /\ pc = "boot"
    /\ llm = "none"
    /\ llm_trace = <<>>
    /\ payload = <<>>
    /\ user_message = <<>>
    /\ flow_decision = ""
    /\ calls = <<>>
    /\ result = NoResult
    /\ memory = <<>>
    /\ chatbot_instance = "none"
    /\ emotion_counts = [m \in Moods |-> 0]
    /\ chat_log \in SeededLogs
    /\ mood_file \in SeededMoodFiles
    /\ emotion_call = NoEmotionCall
    /\ nreq = 0
    /\ snap = NoSnap
    /\ InitFn
    /\ InitRag

NextStats ==
    \/ StatsAnswer
    \/ StatsDone

SpecStats == InitStats /\ [][NextStats]_vars

----------------------------------------------------------------------------
(* route_animals, its keyword router and the fetch actions                 *)

\* `for _ in range(6)` of dog_photo
DOG_TRIES == 6

AnimalMessages ==
    { <<>>,
      Chars("photo please"),
      Chars("Dog PHOTO fact"),
      Chars("köpek  bilgi"),
      Chars("cat photo fact"),
      Chars("kedi resim"),
      Chars("dog and cat image"),
      Chars("cat fact dog"),
      Chars("tilki bilgi"),
      Chars("FOX foto"),
      Chars("ördek image"),
      Chars("duck"),
      Chars("<script>dog photo"),
      Rep("d", MAX_ANIMAL_MESSAGE_LENGTH + 1) }

\* what client.chat.completions.create gives route_animals: an exception, a
\* message without a function call, or the name of a function
GatewayAnswers ==
    { "raise", "no_function", "dog_photo", "dog_facts", "cat_facts", "cat_photo",
      "fox_photo", "duck_photo", "bird_photo" }

\* the "url" of one answer of random.dog, as str(...) of it
DogUrls ==
    { Chars("https://random.dog/a.mp4"),
      Chars("https://random.dog/c.JPG"),
      Chars(" https://random.dog/d.webp "),
      Chars("https://random.dog/e.jpeg?x") }

IMAGE_EXTENSIONS == <<Chars(".jpg"), Chars(".jpeg"), Chars(".png"), Chars(".gif"), Chars(".webp")>>

\* str.endswith
endswith(t, lit) == Len(lit) <= Len(t) /\ At(t, Len(t) - Len(lit) + 1, lit)

\* an extension test that takes the URL as it is written
is_image_url_as_written(url) ==
    /\ Len(url) > 0
    /\ \E k \in 1..Len(IMAGE_EXTENSIONS) : endswith(url, IMAGE_EXTENSIONS[k])

\* _is_image_url
is_image_url(url) ==
    /\ Len(url) > 0
    /\ \E k \in 1..Len(IMAGE_EXTENSIONS) : endswith(lower(url), IMAGE_EXTENSIONS[k])

ANIMAL_PHOTO_WORDS == {Chars("foto"), Chars("resim"), Chars("image"), Chars("photo")}
ANIMAL_FACT_WORDS == {Chars("fact"), Chars("bilgi")}

\* a router that asks for a cat photo before a cat fact
animal_keyword_rule_photo_first(t) ==
    LET dog == ContainsAny(t, {Chars("köpek"), Chars("dog")})
        cat == ContainsAny(t, {Chars("kedi"), Chars("cat")})
        fox == ContainsAny(t, {Chars("tilki"), Chars("fox")})
        duck == ContainsAny(t, {Chars("ördek"), Chars("duck")})
        photo == ContainsAny(t, ANIMAL_PHOTO_WORDS)
        fact == ContainsAny(t, ANIMAL_FACT_WORDS)
    IN  IF dog /\ photo THEN "dog_photo"
        ELSE IF dog /\ fact THEN "dog_facts"
        ELSE IF cat /\ photo THEN "cat_photo"
        ELSE IF cat /\ fact THEN "cat_facts"
        ELSE IF fox /\ photo THEN "fox_photo"
        ELSE IF duck /\ photo THEN "duck_photo"
        ELSE "none"

\* the chain of `if` of _animal_keyword_router on `t = text.lower()`: the fetch
\* action it calls, "none" for `return None`
animal_keyword_rule(t) ==
    LET dog == ContainsAny(t, {Chars("köpek"), Chars("dog")})
        cat == ContainsAny(t, {Chars("kedi"), Chars("cat")})
        fox == ContainsAny(t, {Chars("tilki"), Chars("fox")})
        duck == ContainsAny(t, {Chars("ördek"), Chars("duck")})
        photo == ContainsAny(t, ANIMAL_PHOTO_WORDS)
        fact == ContainsAny(t, ANIMAL_FACT_WORDS)
    IN  IF dog /\ photo THEN "dog_photo"
        ELSE IF dog /\ fact THEN "dog_facts"
        ELSE IF cat /\ fact THEN "cat_facts"
        ELSE IF cat /\ photo THEN "cat_photo"
        ELSE IF fox /\ photo THEN "fox_photo"
        ELSE IF duck /\ photo THEN "duck_photo"
        ELSE "none"

\* _animal_keyword_router
animal_keyword_router(text) == animal_keyword_rule(lower(text))

FetchActions == {"dog_photo", "dog_facts", "cat_facts", "cat_photo", "fox_photo", "duck_photo"}

\* `func = mapping.get(fn_name)`; "none" for `return None`
gateway_action(fn_name) == IF fn_name \in FetchActions THEN fn_name ELSE "none"

NoAnimal == [type |-> "none"]
AnimalError(text) == [type |-> "text", animal |-> "error", text |-> text]

\* a call of route_animals: the sanitized message, who chose the action, the
\* action, the fetches of the running action, what is returned, and the fetch
\* actions the call has invoked so far
RouteState(text, via, action, ret) ==
    [text |-> text, via |-> via, action |-> action, fetches |-> <<>>, ret |-> ret,
     started |-> IF action = "none" THEN <<>> ELSE <<action>>]

\* where a call goes once its action is chosen
after_choice(action) ==
    CASE action = "none"      -> "done"
      [] action = "dog_photo" -> "dog_photo"
      [] OTHER                -> "fetch"

\* route_animals up to the call of the gateway
RouteEnterWith(msg, sanitized) ==
    IF Len(msg) = 0
    THEN fn_out' = RouteState(<<>>, "guard", "none", NoAnimal) /\ fn_pc' = "done"
    ELSE IF Len(msg) > MAX_ANIMAL_MESSAGE_LENGTH
    THEN fn_out' = RouteState(<<>>, "guard", "none", AnimalError("TOO_LONG")) /\ fn_pc' = "done"
    ELSE IF sanitized = BLOCKED
    THEN fn_out' = RouteState(sanitized, "guard", "none", AnimalError("FILTERED")) /\ fn_pc' = "done"
    ELSE IF ~ContainsAny(lower(sanitized), ANIMAL_KEYWORDS)
    THEN fn_out' = RouteState(sanitized, "guard", "none", NoAnimal) /\ fn_pc' = "done"
    ELSE fn_out' = RouteState(sanitized, "guard", "none", NoAnimal) /\ fn_pc' = "gateway"

RouteEnter ==
    /\ fn_pc = "in"
    /\ RouteEnterWith(fn_in, sanitize_with(fn_in, SUBFLOW_PATTERNS, BLOCKED))
    /\ UNCHANGED <<fn_in, req_vars, rag_vars, emo_vars>>

\* the action the keyword router calls
RouteKeywordsWith(action) ==
    /\ fn_out' = [RouteState(fn_out.text, "keywords", action, NoAnimal)
                     EXCEPT !.started = fn_out.started \o @]
    /\ fn_pc' = after_choice(action)

\* `completion = client.chat.completions.create(...)` and what follows it
RouteGateway ==
    /\ fn_pc = "gateway"
    /\ \E fn_name \in GatewayAnswers :
          IF fn_name = "raise"
          THEN RouteKeywordsWith(animal_keyword_router(fn_out.text))
          ELSE /\ fn_out' = RouteState(fn_out.text, "gateway", gateway_action(fn_name), NoAnimal)
               /\ fn_pc' = after_choice(gateway_action(fn_name))
    /\ UNCHANGED <<fn_in, req_vars, rag_vars, emo_vars>>

\* an exception of a fetch action: inside the try of route_animals it starts
\* the keyword router, out of the keyword router it leaves route_animals
FetchRaised ==
    IF fn_out.via = "gateway"
    THEN RouteKeywordsWith(animal_keyword_router(fn_out.text))
    ELSE fn_out' = [fn_out EXCEPT !.ret = [type |-> "raise"]] /\ fn_pc' = "done"

\* the dict of dog_photo after its loop
dog_photo_result(image_url) ==
    IF Len(image_url) = 0
    THEN [type |-> "text", animal |-> "dog", text |-> "DOG_PHOTO_NOT_FOUND"]
    ELSE [type |-> "image", animal |-> "dog", image_url |-> image_url]

\* one turn of the loop of dog_photo for the candidate of the fetch, with the
\* return behind the loop when it is the last
DogTurn(fetches, candidate) ==
    IF is_image_url(candidate)
    THEN /\ fn_out' = [fn_out EXCEPT !.fetches = fetches, !.ret = dog_photo_result(candidate)]
         /\ fn_pc' = "done"
    ELSE IF Len(fetches) = DOG_TRIES
    THEN /\ fn_out' = [fn_out EXCEPT !.fetches = fetches, !.ret = dog_photo_result(<<>>)]
         /\ fn_pc' = "done"
    ELSE /\ fn_out' = [fn_out EXCEPT !.fetches = fetches]
         /\ fn_pc' = "dog_photo"

\* dog_photo: one _http_get_json and the turn of the loop it belongs to
DogFetch ==
    /\ fn_pc = "dog_photo"
    /\ \/ \E url \in DogUrls : DogTurn(Append(fn_out.fetches, url), strip(url))
       \/ FetchRaised
    /\ UNCHANGED <<fn_in, req_vars, rag_vars, emo_vars>>

\* the dict of the five actions of one fetch
fetch_result(action) ==
    CASE action = "dog_facts"  -> [type |-> "text", animal |-> "dog"]
      [] action = "cat_facts"  -> [type |-> "text", animal |-> "cat"]
      [] action = "cat_photo"  -> [type |-> "image", animal |-> "cat"]
      [] action = "fox_photo"  -> [type |-> "image", animal |-> "fox"]
      [] action = "duck_photo" -> [type |-> "image", animal |-> "duck"]

\* dog_facts, cat_facts, cat_photo, fox_photo, duck_photo
AnimalFetch ==
    /\ fn_pc = "fetch"
    /\ \/ fn_out' = [fn_out EXCEPT !.ret = fetch_result(fn_out.action)] /\ fn_pc' = "done"
       \/ FetchRaised
    /\ UNCHANGED <<fn_in, req_vars, rag_vars, emo_vars>>

InitAnimals ==
    /\ InitReq
    /\ InitRag
    /\ fn_in \in AnimalMessages
    /\ fn_out = RouteState(<<>>, "guard", "none", NoAnimal)
    /\ fn_pc = "in"

NextAnimals ==
    \/ RouteEnter
    \/ RouteGateway
    \/ DogFetch
    \/ AnimalFetch

SpecAnimals == InitAnimals /\ [][NextAnimals]_vars

----------------------------------------------------------------------------
(* Two /chat requests in the tail of EmotionChatbot.chat at the same time  *)

\* The endpoint is a plain `def`, so each request runs in a worker thread; both
\* use the one chatbot_instance and its emotion_counts. A thread may be
\* suspended between the read and the write of `+= 1` and between json.dumps
\* and write_text.
ChatThreads == {1, 2}

\* the three mood fields of the reply of each request
RaceMoods == { <<"Mutlu", "Mutlu", " Üzgün ">>, <<"Mutlu", "Neseli", "Üzgün">> }

NoDump == [m \in Moods |-> 0]

\* a thread before `inc(user_mood_raw)`
RaceLocal == [k |-> 1, loaded |-> 0, dumped |-> NoDump, incs |-> [m \in Moods |-> 0]]

\* `key = (mood or "").strip()`
inc_key(mood) ==
    IF \E m \in Moods : Chars(m) = strip(Chars(mood))
    THEN CHOOSE m \in Moods : Chars(m) = strip(Chars(mood))
    ELSE "none"

\* where a thread goes after its k-th inc
after_inc(k) == IF k = 3 THEN "dumps" ELSE "inc"

\* inc(mood): `if key in self.emotion_counts` and the read of `+= 1`
RaceIncLoadWith(t, key) ==
    IF key = "none"
    THEN /\ fn_out' = [fn_out EXCEPT ![t].k = @ + 1]
         /\ fn_pc' = [fn_pc EXCEPT ![t] = after_inc(fn_out[t].k)]
    ELSE /\ fn_out' = [fn_out EXCEPT ![t].loaded = emotion_counts[key]]
         /\ fn_pc' = [fn_pc EXCEPT ![t] = "store"]

RaceIncLoad(t) ==
    /\ fn_pc[t] = "inc"
    /\ RaceIncLoadWith(t, inc_key(fn_in[t][fn_out[t].k]))
    /\ UNCHANGED <<fn_in, req_vars, rag_vars, emo_vars>>

\* the write of `self.emotion_counts[key] += 1`
RaceIncStoreWith(t, key) ==
    /\ emotion_counts' = [emotion_counts EXCEPT ![key] = fn_out[t].loaded + 1]
    /\ fn_out' = [fn_out EXCEPT ![t].k = @ + 1, ![t].incs[key] = @ + 1]
    /\ fn_pc' = [fn_pc EXCEPT ![t] = after_inc(fn_out[t].k)]

RaceIncStore(t) ==
    /\ fn_pc[t] = "store"
    /\ RaceIncStoreWith(t, inc_key(fn_in[t][fn_out[t].k]))
    /\ UNCHANGED <<pc, llm, llm_trace, payload, user_message, flow_decision, calls, result,
                   memory, chatbot_instance, chat_log, nreq, snap, fn_in, rag_vars, emo_vars>>

\* _save_mood_counts: `json.dumps(self.emotion_counts, ...)`
RaceDumps(t) ==
    /\ fn_pc[t] = "dumps"
    /\ fn_out' = [fn_out EXCEPT ![t].dumped = emotion_counts]
    /\ fn_pc' = [fn_pc EXCEPT ![t] = "write"]
    /\ UNCHANGED <<fn_in, req_vars, rag_vars, emo_vars>>

\* _save_mood_counts: `MOOD_COUNTER_FILE.write_text(...)`
RaceWrite(t) ==
    /\ fn_pc[t] = "write"
    /\ mood_file' = save_mood_counts(fn_out[t].dumped, mood_file, TRUE)
    /\ emotion_call' = [op |-> "write", n |-> t, saved |-> [written |-> TRUE]]
    /\ fn_pc' = [fn_pc EXCEPT ![t] = "done"]
    /\ UNCHANGED <<fn_in, fn_out, req_vars, rag_vars>>

InitMoodRace ==
    /\ pc = "boot"
    /\ llm = "none"
    /\ llm_trace = <<>>
    /\ payload = <<>>
    /\ user_message = <<>>
    /\ flow_decision = ""
    /\ calls = <<>>
    /\ result = NoResult
    /\ memory = <<>>
    /\ chatbot_instance = "openai"
    /\ emotion_counts = [m \in Moods |-> 0]
    /\ chat_log = <<>>
    /\ mood_file = json_dumps_counts([m \in Moods |-> 0])
    /\ emotion_call = NoEmotionCall
    /\ nreq = 0
    /\ snap = NoSnap
    /\ InitRag
    /\ fn_in \in [ChatThreads -> RaceMoods]
    /\ fn_out = [t \in ChatThreads |-> RaceLocal]
    /\ fn_pc = [t \in ChatThreads |-> "inc"]

NextMoodRace ==
    \E t \in ChatThreads :
        \/ RaceIncLoad(t)
        \/ RaceIncStore(t)
        \/ RaceDumps(t)
        \/ RaceWrite(t)

SpecMoodRace == InitMoodRace /\ [][NextMoodRace]_vars

----------------------------------------------------------------------------
(* ensure_index called by two requests at once, one col.add per step       *)

\* `batch_size = 1000` and `smaller_batch = 500` of ensure_index
BATCH_SIZE == 1000
SMALLER_BATCH == 500

\* len(docs): the chunks that the PDFs of the folder give
IndexSizes == {0, 1, 1000, 1001, 1501}

\* a caller of ensure_index behind its _get_collection: the count it saw, the
\* chunks it scanned, the start of its batch and of its sub-batch, the col.add
\* calls it has issued and what it returns
NoIndexCall ==
    [pc |-> "e_count", count |-> 0, scanned |-> FALSE, n |-> 0, i |-> 0, j |-> 0,
     log |-> <<>>, out |-> "none"]

\* the chunks of the collection: those of the ranges added to it
chunks_in(ranges, n) == {c \in 0..(n - 1) : \E r \in ranges : r[1] <= c /\ c < r[2]}

\* ensure_index: col.count(), `if count > 0: return`
IndexCounted(t, count) ==
    rag_call' = [rag_call EXCEPT ![t].count = count,
                                 ![t].pc = IF ensure_skips(count) THEN "returned" ELSE "e_scan",
                                 ![t].out = IF ensure_skips(count) THEN "ok" ELSE @]

IndexCount(t) ==
    /\ rag_call[t].pc = "e_count"
    /\ \E ok \in BOOLEAN :
          IndexCounted(t, IF ok THEN Cardinality(chunks_in(collection.ids, fn_in)) ELSE 0)
    /\ UNCHANGED <<rag_service, loader, collection, req_vars, fn_vars, emo_vars>>

\* ensure_index: the PDFs are read and chunked; `if docs:`
IndexScan(t) ==
    /\ rag_call[t].pc = "e_scan"
    /\ rag_call' = [rag_call EXCEPT ![t].scanned = TRUE, ![t].n = fn_in,
                                    ![t].pc = IF fn_in = 0 THEN "returned" ELSE "e_batch",
                                    ![t].out = IF fn_in = 0 THEN "ok" ELSE @]
    /\ UNCHANGED <<rag_service, loader, collection, req_vars, fn_vars, emo_vars>>

\* sub-batches that are the whole batch again
mini_end_whole(j, len) == len

\* `batch_docs[j:j + smaller_batch]`: where the slice ends
mini_end(j, len) == Min(len, j + SMALLER_BATCH)

\* `docs[i:i + batch_size]`: where the slice ends
batch_end(i, n) == Min(n, i + BATCH_SIZE)

\* where ensure_index goes after the batch that starts at i
after_batch(i, n) == IF i + BATCH_SIZE < n THEN "e_batch" ELSE "returned"

\* one col.add(...) of chunks lo..hi-1: what the call log and the collection hold after it
offered(log, lo, hi, kind, ok) == Append(log, [lo |-> lo, hi |-> hi, kind |-> kind, ok |-> ok])
added(col, lo, hi, ok) == IF ok THEN [col EXCEPT !.ids = @ \cup {<<lo, hi>>}] ELSE col

\* one turn of `for i in range(0, len(docs), batch_size)` up to its col.add
IndexBatchWith(t, c, ok) ==
    /\ collection' = added(collection, c.i, batch_end(c.i, c.n), ok)
    /\ rag_call' =
          [rag_call EXCEPT
              ![t].log = offered(c.log, c.i, batch_end(c.i, c.n), "batch", ok),
              ![t].i = IF ok THEN c.i + BATCH_SIZE ELSE c.i,
              ![t].j = 0,
              ![t].pc = IF ok THEN after_batch(c.i, c.n) ELSE "e_mini",
              ![t].out = IF ok /\ after_batch(c.i, c.n) = "returned" THEN "ok" ELSE @]

IndexBatch(t) ==
    /\ rag_call[t].pc = "e_batch"
    /\ \E ok \in BOOLEAN : IndexBatchWith(t, rag_call[t], ok)
    /\ UNCHANGED <<rag_service, loader, req_vars, fn_vars, emo_vars>>

\* one turn of `for j in range(0, len(batch_docs), smaller_batch)` inside the
\* except of a batch of len chunks
IndexMiniWith(t, c, len, ok) ==
    /\ collection' = added(collection, c.i + c.j, c.i + mini_end(c.j, len), ok)
    /\ rag_call' =
          [rag_call EXCEPT
              ![t].log = offered(c.log, c.i + c.j, c.i + mini_end(c.j, len), "mini", ok),
              ![t].j = IF c.j + SMALLER_BATCH < len THEN c.j + SMALLER_BATCH ELSE 0,
              ![t].i = IF c.j + SMALLER_BATCH < len THEN c.i ELSE c.i + BATCH_SIZE,
              ![t].pc = IF c.j + SMALLER_BATCH < len THEN "e_mini" ELSE after_batch(c.i, c.n),
              ![t].out = IF c.j + SMALLER_BATCH >= len /\ after_batch(c.i, c.n) = "returned"
                         THEN "ok" ELSE @]

IndexMini(t) ==
    /\ rag_call[t].pc = "e_mini"
    /\ \E ok \in BOOLEAN :
          IndexMiniWith(t, rag_call[t], batch_end(rag_call[t].i, rag_call[t].n) - rag_call[t].i, ok)
    /\ UNCHANGED <<rag_service, loader, req_vars, fn_vars, emo_vars>>

InitIndex ==
    /\ InitReq
    /\ rag_service = [client |-> TRUE, embedder |-> TRUE,
                      model_loading |-> FALSE, model_loaded |-> TRUE,
                      embedder_of |-> "loader", loads |-> <<"loader">>]
    /\ loader = "ended"
    /\ collection = [exists |-> TRUE, ids |-> {}]
    /\ rag_call = [t \in ChatThreads |-> NoIndexCall]
    /\ fn_in \in IndexSizes
    /\ fn_out = <<>>
    /\ fn_pc = "unused"

NextIndex ==
    \E t \in ChatThreads :
        \/ IndexCount(t)
        \/ IndexScan(t)
        \/ IndexBatch(t)
        \/ IndexMini(t)

SpecIndex == InitIndex /\ [][NextIndex]_vars

----------------------------------------------------------------------------
(* _process_rag_flow on its own: the source, the retrieval, the rag_chain  *)

\* messages as process_message hands them over
RagMessages ==
    { Chars("merhaba nasilsin"),
      Chars("kedi ne yer"),
      Chars("My CAT sleeps"),
      Chars("education"),
      Chars("Papa") \o <<g_breve>> \o Chars("an ne yer"),
      Chars("parrot and cat"),
      Chars("KU") \o <<S_CEDILLA>> \o Chars(" ve tav") \o <<s_cedilla>> \o Chars("an"),
      Chars("rabbit food"),
      Chars("rabbit or parrot"),
      Chars("PARROT"),
      Chars("ku") \o <<s_cedilla>> \o Chars(" yemi"),
      Chars("pdf nedir"),
      Chars("cat and rabbit"),
      Chars("tav") \o <<s_cedilla>> \o Chars("an kedi"),
      Chars("kedi ") \o Rep("a", MAX_RAG_QUERY_LENGTH) }

\* a call of _process_rag_flow: the source chosen, the retrievals run, the calls
\* of rag_chain and what is returned ("none" for None)
NoRagFlow == [source |-> "", retrievals |-> <<>>, chains |-> 0, ret |-> "pending"]

\* _process_rag_flow: the if/elif chain over the keywords
RagFlowSource ==
    /\ fn_pc = "in"
    /\ fn_out' = [fn_out EXCEPT !.source = rag_source(fn_in)]
    /\ fn_pc' = "retrieve"
    /\ UNCHANGED <<fn_in, req_vars, rag_vars, emo_vars>>

\* the retrieval of the branch taken, ended as r, and `if not chunks: return None`
RagFlowRetrieved(src, o, r) ==
    /\ fn_out' = [fn_out EXCEPT
                     !.retrievals = Append(@, [fn |-> retrieval_call(src), source |-> src,
                                               store |-> o, out |-> r]),
                     !.ret = CASE after_retrieval(r) = "raise" -> "raise"
                               [] after_retrieval(r) = "help" -> "none"
                               [] OTHER -> @]
    /\ fn_pc' = IF after_retrieval(r) = "rag_chain" THEN "rag_chain" ELSE "done"

RagFlowRetrieve ==
    /\ fn_pc = "retrieve"
    /\ \E o \in RetrievalOutcomes : RagFlowRetrieved(fn_out.source, o, retrieve(fn_in, o))
    /\ UNCHANGED <<fn_in, req_vars, rag_vars, emo_vars>>

\* rag_chain on the context, memory.save_context, the dict
RagFlowChain ==
    /\ fn_pc = "rag_chain"
    /\ \E ok \in BOOLEAN :
          /\ fn_out' = [fn_out EXCEPT !.chains = @ + 1,
                                      !.ret = IF ok THEN "answer" ELSE "raise"]
          /\ memory' = IF ok THEN save_context(memory, fn_in, "RAG_ANSWER") ELSE memory
    /\ fn_pc' = "done"
    /\ UNCHANGED <<pc, llm, llm_trace, payload, user_message, flow_decision, calls, result,
                   chatbot_instance, emotion_counts, chat_log, nreq, snap, fn_in,
                   rag_vars, emo_vars>>

InitRagFlow ==
    /\ InitReq
    /\ InitRag
    /\ fn_in \in RagMessages
    /\ fn_out = NoRagFlow
    /\ fn_pc = "in"

NextRagFlow ==
    \/ RagFlowSource
    \/ RagFlowRetrieve
    \/ RagFlowChain

SpecRagFlow == InitRagFlow /\ [][NextRagFlow]_vars

----------------------------------------------------------------------------
(* extract_json_object of EmotionChatbot.chat                              *)

\* the grave accent, which a string of the module cannot hold
grave == "grave"

FENCE == <<grave, grave, grave>>
FENCE_JSON == FENCE \o Chars("json")

\* str.replace(lit, ""): the occurrences of lit, left to right, are taken out
RECURSIVE remove_all(_, _)
remove_all(t, lit) ==
    IF ~Contains(t, lit) THEN t
    ELSE LET i == CHOOSE i \in 1..Len(t) : At(t, i, lit) /\ \A j \in 1..(i - 1) : ~At(t, j, lit)
         IN  SubSeq(t, 1, i - 1) \o remove_all(SubSeq(t, i + Len(lit), Len(t)), lit)

\* text.replace(FENCE_JSON, "").replace(FENCE, "").strip()
remove_fences(text) == strip(remove_all(remove_all(text, FENCE_JSON), FENCE))

\* `t.find('{')`, 0 for -1
find_brace(t) ==
    IF \E i \in 1..Len(t) : t[i] = "{"
    THEN CHOOSE i \in 1..Len(t) : t[i] = "{" /\ \A j \in 1..(i - 1) : t[j] # "{"
    ELSE 0

\* the scan before its first character
ScanStart ==
    [depth |-> 0, in_string |-> FALSE, escape |-> FALSE, found |-> FALSE, end_index |-> 0]

\* a scan that takes a quote for any other character
scan_char_no_strings(ch, s) ==
    IF ch = "{" THEN [s EXCEPT !.depth = @ + 1]
    ELSE IF ch = "}" THEN [s EXCEPT !.depth = @ - 1, !.found = (s.depth - 1 = 0)]
    ELSE s

\* the body of `for i in range(start, len(t))` for the character ch
scan_char(ch, s) ==
    IF s.in_string
    THEN IF s.escape THEN [s EXCEPT !.escape = FALSE]
         ELSE IF ch = "\\" THEN [s EXCEPT !.escape = TRUE]
         ELSE IF ch = "\"" THEN [s EXCEPT !.in_string = FALSE]
         ELSE s
    ELSE IF ch = "\"" THEN [s EXCEPT !.in_string = TRUE]
         ELSE IF ch = "{" THEN [s EXCEPT !.depth = @ + 1]
         ELSE IF ch = "}" THEN [s EXCEPT !.depth = @ - 1, !.found = (s.depth - 1 = 0)]
         ELSE s

\* `end_index = i; break`
scan_break(i, s) == IF s.found THEN [s EXCEPT !.end_index = i] ELSE s

\* one turn of the loop
scan_turn(t, i, s) == scan_break(i, scan_char(t[i], s))

\* the turns for the positions lo..hi, by halves, none after the break
RECURSIVE scan_turns(_, _, _, _)
scan_turns(t, lo, hi, s) ==
    IF s.found \/ lo > hi THEN s
    ELSE IF lo = hi THEN scan_turn(t, lo, s)
    ELSE scan_turns(t, ((lo + hi) \div 2) + 1, hi, scan_turns(t, lo, (lo + hi) \div 2, s))

\* the loop `for i in range(start, len(t))`: end_index, 0 for -1
scan_from(t, i, s) == scan_turns(t, i, Len(t), s).end_index

\* white space of JSON
JsonSpace(c) == c \in {" ", "\t", "\n", "\r"}

json_skip(t, i) ==
    CHOOSE j \in i..(Len(t) + 1) :
        /\ j = Len(t) + 1 \/ ~JsonSpace(t[j])
        /\ \A k \in i..(j - 1) : JsonSpace(t[k])

NoParse == [ok |-> FALSE, next |-> 0, value |-> [type |-> "none", text |-> <<>>]]
Parsed(type, text, next) == [ok |-> TRUE, next |-> next, value |-> [type |-> type, text |-> text]]

\* the backslashes that stand directly before position j, from position lo on
RECURSIVE backslashes_before(_, _, _)
backslashes_before(t, lo, j) ==
    IF j - 1 < lo \/ t[j - 1] # "\\" THEN 0 ELSE 1 + backslashes_before(t, lo, j - 1)

\* a JSON string that opens at i: its raw text and the place behind it
json_string_to(t, i, close) ==
    IF \A k \in (i + 1)..(close - 1) :
          /\ t[k] \notin {"\n", "\t", "\r"}
          /\ (t[k] = "\\" /\ backslashes_before(t, i + 1, k) % 2 = 0)
                => t[k + 1] \in {"\"", "\\", "/", "b", "f", "n", "r", "t"}
    THEN Parsed("string", SubSeq(t, i + 1, close - 1), close + 1)
    ELSE NoParse

json_string(t, i) ==
    IF i <= Len(t) /\ t[i] = "\""
          /\ \E c \in (i + 1)..Len(t) : t[c] = "\"" /\ backslashes_before(t, i + 1, c) % 2 = 0
    THEN json_string_to(t, i, CHOOSE c \in (i + 1)..Len(t) :
                                  /\ t[c] = "\"" /\ backslashes_before(t, i + 1, c) % 2 = 0
                                  /\ \A d \in (i + 1)..(c - 1) :
                                        ~(t[d] = "\"" /\ backslashes_before(t, i + 1, d) % 2 = 0))
    ELSE NoParse

\* a JSON integer that starts at i
json_number_to(t, i, first, end) ==
    IF end >= first /\ (t[first] # "0" \/ end = first)
    THEN Parsed("number", SubSeq(t, i, end), end + 1)
    ELSE NoParse

json_number_from(t, i, first) ==
    json_number_to(t, i, first,
                   CHOOSE e \in (first - 1)..Len(t) :
                       /\ \A k \in first..e : IsIn(t[k], DigitChars)
                       /\ e = Len(t) \/ ~IsIn(t[e + 1], DigitChars))

json_number(t, i) ==
    json_number_from(t, i, IF i <= Len(t) /\ t[i] = "-" THEN i + 1 ELSE i)

json_literal(t, i) ==
    IF At(t, i, Chars("true")) THEN Parsed("true", Chars("true"), i + 4)
    ELSE IF At(t, i, Chars("false")) THEN Parsed("false", Chars("false"), i + 5)
    ELSE IF At(t, i, Chars("null")) THEN Parsed("null", Chars("null"), i + 4)
    ELSE NoParse

RECURSIVE json_object(_, _)
RECURSIVE json_members(_, _, _)

\* a JSON value that starts at i (strings, integers, literals and objects)
json_value(t, i) ==
    IF i > Len(t) THEN NoParse
    ELSE IF t[i] = "\"" THEN json_string(t, i)
    ELSE IF t[i] = "{" THEN json_object(t, i)
    ELSE IF t[i] = "-" \/ IsIn(t[i], DigitChars) THEN json_number(t, i)
    ELSE json_literal(t, i)

\* behind a member: `,` and the next member, or `}`
json_after_member(t, i, items) ==
    IF i > Len(t) THEN NoParse
    ELSE IF t[i] = "}" THEN [ok |-> TRUE, next |-> i + 1, items |-> items]
    ELSE IF t[i] = "," THEN json_members(t, json_skip(t, i + 1), items)
    ELSE NoParse

json_member_value(t, key, v, items) ==
    IF ~v.ok THEN NoParse
    ELSE json_after_member(t, json_skip(t, v.next),
                           Append(items, [key |-> key.value.text, value |-> v.value]))

json_member_key(t, key, colon, items) ==
    IF ~key.ok \/ colon > Len(t) \/ t[colon] # ":" THEN NoParse
    ELSE json_member_value(t, key, json_value(t, json_skip(t, colon + 1)), items)

json_member_from(t, key, items) ==
    json_member_key(t, key, IF key.ok THEN json_skip(t, key.next) ELSE 0, items)

\* `"key": value` at i and what follows it
json_members(t, i, items) == json_member_from(t, json_string(t, i), items)

json_object_at(t, i, first) ==
    IF first <= Len(t) /\ t[first] = "}"
    THEN [ok |-> TRUE, next |-> first + 1, items |-> <<>>]
    ELSE json_members(t, first, <<>>)

json_object_items(t, i, o) ==
    IF o.ok THEN [ok |-> TRUE, next |-> o.next,
                  value |-> [type |-> "object", text |-> SubSeq(t, i, o.next - 1)],
                  items |-> o.items]
    ELSE NoParse

\* a JSON object that opens at i: its members in their order
json_object(t, i) == json_object_items(t, i, json_object_at(t, i, json_skip(t, i + 1)))

NoJson == [kind |-> "none"]

\* json.loads(text) inside a try, as far as its callers tell the results
\* apart: the object that the text is, or none (another value, or an error)
json_loads_parsed(text, o) ==
    IF o.ok /\ json_skip(text, o.next) = Len(text) + 1
    THEN [kind |-> "object", items |-> o.items]
    ELSE NoJson

json_loads_at(text, i) ==
    IF i <= Len(text) /\ text[i] = "{" THEN json_loads_parsed(text, json_object(text, i))
    ELSE NoJson

json_loads(text) == json_loads_at(text, json_skip(text, 1))

\* extract_json_object behind the scan
extract_span(t, start, end_index) ==
    IF end_index = 0 THEN NoJson ELSE json_loads(SubSeq(t, start, end_index))

extract_from(t, start) ==
    IF start = 0 THEN NoJson ELSE extract_span(t, start, scan_from(t, start, ScanStart))

extract_unfenced(t) == extract_from(t, find_brace(t))

\* extract_json_object
extract_json_object(text) == extract_unfenced(remove_fences(text))

\* what the model may put before, as and behind its JSON object
JsonPrefixes ==
    { <<>>, FENCE_JSON \o Chars("\n"), Chars("Cevap: "), Chars("\"not\" } ") }

JsonBodies ==
    { Chars("{\"kullanici_ruh_hali\": \"Mutlu\", \"n\": 12}"),
      Chars("{}"),
      Chars("{\"a\": \"}\"}"),
      Chars("{\"a\": \"{\"}"),
      Chars("{\"a\": \"x\\\"}\", \"b\": {\"c\": null}}"),
      Chars("{\"a\": \"\\\\\"}"),
      Chars("{\"a\": {\"b\": {}}, \"a\": -7}"),
      Chars("{\"a\": 1"),
      Chars("{\"a\": \"b}"),
      Chars("{a: 1}"),
      Chars("{\"a\": 01}"),
      Chars("{\"a\": 1,}"),
      Chars("{\"a\": \"") \o FENCE \o Chars("\"}"),
      Chars("merhaba"),
      <<>> }

JsonSuffixes ==
    { <<>>, Chars("\n") \o FENCE, Chars(" umarim {yardimci} olur"), Chars(" } \"son\"") }

ExtractInputs ==
    { p \o b \o s : p \in JsonPrefixes, b \in JsonBodies, s \in JsonSuffixes }

\* extract_json_object(content)
ExtractStep ==
    /\ fn_pc = "in"
    /\ fn_out' = extract_json_object(fn_in)
    /\ fn_pc' = "out"
    /\ UNCHANGED <<fn_in, req_vars, rag_vars, emo_vars>>

InitExtract ==
    /\ InitReq
    /\ InitRag
    /\ fn_in \in ExtractInputs
    /\ fn_out = NoJson
    /\ fn_pc = "in"

SpecExtract == InitExtract /\ [][ExtractStep]_vars

----------------------------------------------------------------------------
(* One day of emotion chats, the replies and the log as texts              *)

\* chats of the day
MaxDayChats == 2

Unescaped(c) ==
    CASE c = "n" -> "\n" [] c = "t" -> "\t" [] c = "r" -> "\r" [] OTHER -> c

\* the text of a JSON string: the characters behind its escapes
RECURSIVE json_decode(_)
json_decode(raw) ==
    IF Len(raw) = 0 THEN <<>>
    ELSE IF raw[1] = "\\" /\ Len(raw) >= 2
    THEN <<Unescaped(raw[2])>> \o json_decode(SubSeq(raw, 3, Len(raw)))
    ELSE <<raw[1]>> \o json_decode(Tail(raw))

\* a text as json.dumps(..., ensure_ascii=False) writes it between the quotes
RECURSIVE json_encode(_)
json_encode(text) ==
    IF Len(text) = 0 THEN <<>>
    ELSE (CASE text[1] = "\"" -> Chars("\\\"")
            [] text[1] = "\\" -> Chars("\\\\")
            [] text[1] = "\n" -> Chars("\\n")
            [] text[1] = "\t" -> Chars("\\t")
            [] text[1] = "\r" -> Chars("\\r")
            [] OTHER -> <<text[1]>>) \o json_encode(Tail(text))

\* the dict of an object: a key stands where it first stood with its last value
py_dict(items) ==
    LET firsts == SelectSeq(Tup([i \in 1..Len(items) |-> i], Len(items)),
                            LAMBDA i : \A j \in 1..(i - 1) : items[j].key # items[i].key)
        last(k) == CHOOSE i \in 1..Len(items) :
                       items[i].key = k /\ \A j \in (i + 1)..Len(items) : items[j].key # k
    IN  Tup([n \in 1..Len(firsts) |->
                [key |-> json_decode(items[firsts[n]].key),
                 value |-> items[last(items[firsts[n]].key)].value]], Len(firsts))

has_key(data, k) == \E i \in 1..Len(data) : data[i].key = Chars(k)

\* str(value) of a value of the dict (the text of an inner dict opens with a
\* brace, as its str does)
py_str(value) ==
    CASE value.type = "string" -> json_decode(value.text)
      [] value.type = "true" -> Chars("True")
      [] value.type = "false" -> Chars("False")
      [] value.type = "null" -> Chars("None")
      [] OTHER -> value.text

\* `str(data.get(k, ""))`
get_str(data, k) ==
    IF has_key(data, k)
    THEN py_str(data[CHOOSE i \in 1..Len(data) : data[i].key = Chars(k)].value)
    ELSE <<>>

json_dumps_value(value) ==
    IF value.type = "string"
    THEN Chars("\"") \o json_encode(json_decode(value.text)) \o Chars("\"")
    ELSE value.text

RECURSIVE json_dumps_from(_, _)
json_dumps_from(data, k) ==
    IF k > Len(data) THEN <<>>
    ELSE (IF k > 1 THEN Chars(", ") ELSE <<>>)
         \o Chars("\"") \o json_encode(data[k].key) \o Chars("\": ")
         \o json_dumps_value(data[k].value) \o json_dumps_from(data, k + 1)

\* json.dumps(data, ensure_ascii=False)
json_dumps(data) == Chars("{") \o json_dumps_from(data, 1) \o Chars("}")

\* the line that _append_chat_history writes, as json.loads reads it again
history_line(timestamp, user, response) ==
    [timestamp |-> timestamp, user |-> user, response |-> response]

MoodFields == <<"kullanici_ruh_hali", "ilk_ruh_hali", "ikinci_ruh_hali">>

\* chat from `data = extract_json_object(content)` on, for a full object
chat_counted(msg, data, now, counts, log, file) ==
    [counts |-> counts,
     file |-> save_mood_counts(counts, file, TRUE),
     log |-> Append(log, history_line(now, msg, json_dumps(data)))]

chat_on_data(msg, content, data, now, counts, log, file) ==
    IF Len(data) = 0 \/ missing({k \in required_keys : has_key(data, k)}) # {}
    THEN [counts |-> counts, file |-> file,
          log |-> Append(log, history_line(now, msg, content))]
    ELSE chat_counted(msg, data, now,
                      inc_text(inc_text(inc_text(counts, get_str(data, MoodFields[1])),
                                        get_str(data, MoodFields[2])),
                               get_str(data, MoodFields[3])),
                      log, file)

chat_on_extract(msg, content, extracted, now, counts, log, file) ==
    chat_on_data(msg, content,
                 IF extracted.kind = "object" THEN py_dict(extracted.items) ELSE <<>>,
                 now, counts, log, file)

\* EmotionChatbot.chat on the content of its completion, the files writable
chat_on_content(msg, content, now, counts, log, file) ==
    chat_on_extract(msg, content, extract_json_object(content), now, counts, log, file)

\* one line of _read_today_counts_from_chat_history
today_line_data(counts, data) ==
    inc_text(inc_text(inc_text(counts, get_str(data, MoodFields[1])),
                      get_str(data, MoodFields[2])),
             get_str(data, MoodFields[3]))

today_line_loaded(counts, loaded) ==
    IF loaded.kind = "object" THEN today_line_data(counts, py_dict(loaded.items)) ELSE counts

today_line(counts, line, today) ==
    IF stamped_today(line.timestamp, today)
    THEN today_line_loaded(counts, json_loads(line.response))
    ELSE counts

RECURSIVE today_lines(_, _, _, _)
today_lines(counts, log, k, today) ==
    IF k > Len(log) THEN counts
    ELSE today_lines(today_line(counts, log[k], today), log, k + 1, today)

\* _read_today_counts_from_chat_history over the lines as texts
today_counts_from_chat_history(log, today) ==
    today_lines([m \in Moods |-> 0], log, 1, today)

\* what the completion backend may answer during the day
DayContents ==
    { Chars("{\"kullanici_ruh_hali\": \"Mutlu\", \"ilk_ruh_hali\": \"Yorgun\", \"ilk_cevap\": \"Selam\", \"ikinci_ruh_hali\": \" Mutlu \", \"ikinci_cevap\": \"Hey\"}"),
      FENCE_JSON \o Chars("\n{\"kullanici_ruh_hali\":\"Üzgün\",\"ilk_ruh_hali\":\"Neseli\",\"ilk_cevap\":\"a\\\"b\",\"ikinci_ruh_hali\":null,\"ikinci_cevap\":\"\"}\n") \o FENCE,
      Chars("Elbette: {\"kullanici_ruh_hali\": \"Yorgun\", \"ilk_ruh_hali\": \"Mutlu\", \"ilk_cevap\": \"x\"}"),
      Chars("{\"kullanici_ruh_hali\": \"Mutlu\", \"ilk_ruh_hali\": \"Mutlu\", \"ilk_cevap\": \"Harika!\"}"),
      Chars("{}"),
      Chars("Bugün nasilsin?") }

DayClock == <<Chars("09:15:00"), Chars("09:15:00"), Chars("23:59:59")>>

DayMessage == Chars("bugün iyiyim")

\* chatbot_instance.chat(message) with a completion that has content
DayChat ==
    /\ emotion_call.n < MaxDayChats
    /\ \E content \in DayContents :
          LET c == chat_on_content(DayMessage, content,
                                   fn_in \o Chars(" ") \o DayClock[(emotion_call.n % 3) + 1],
                                   emotion_counts, chat_log, mood_file)
          IN  /\ emotion_counts' = c.counts
              /\ mood_file' = c.file
              /\ chat_log' = c.log
              /\ emotion_call' = [emotion_call EXCEPT !.op = "chat", !.n = @ + 1]
    /\ fn_out' = <<>>
    /\ fn_pc' = "day"
    /\ UNCHANGED <<pc, llm, llm_trace, payload, user_message, flow_decision, calls, result,
                   memory, chatbot_instance, nreq, snap, fn_in, rag_vars>>

\* the statistics engine reads both counts on the day of the chats
DayRead ==
    /\ fn_pc = "day"
    /\ fn_out' = [today |-> today_counts_from_chat_history(chat_log, fn_in),
                  all |-> read_persisted_counts(mood_file)]
    /\ fn_pc' = "read"
    /\ UNCHANGED <<fn_in, req_vars, rag_vars, emo_vars>>

\* a fresh install on one of the days: empty log, `{}` in the counter file,
\* all counters zero
InitDay ==
    /\ pc = "boot"
    /\ llm = "none"
    /\ llm_trace = <<>>
    /\ payload = <<>>
    /\ user_message = <<>>
    /\ flow_decision = ""
    /\ calls = <<>>
    /\ result = NoResult
    /\ memory = <<>>
    /\ chatbot_instance = "openai"
    /\ emotion_counts = init_counts(load_mood_counts(EmptyMoodFile))
    /\ chat_log = <<>>
    /\ mood_file = EmptyMoodFile
    /\ emotion_call = [op |-> "init", n |-> 0, saved |-> [written |-> FALSE]]
    /\ nreq = 0
    /\ snap = NoSnap
    /\ InitRag
    /\ fn_in \in Days
    /\ fn_out = <<>>
    /\ fn_pc = "day"

NextDay ==
    \/ DayChat
    \/ DayRead

SpecDay == InitDay /\ [][NextDay]_vars

----------------------------------------------------------------------------
(* FlowDecisionParser.parse and _sanitize_input on their own: the input is *)
(* drawn from the texts built of a few fragments, the step applies the     *)
(* function                                                                *)

MaxParseFragments == 2
MaxSanFragments == 3

\* every concatenation of at most n fragments of F
RECURSIVE Concats(_, _)
Concats(F, n) ==
    IF n = 0 THEN {<<>>}
    ELSE {s \o f : s \in Concats(F, n - 1), f \in F \cup {<<>>}}

\* pieces of what a completion backend may answer to the classification prompt
ParseFragments ==
    { Chars("RAG"), Chars("animal"), Chars("Help"), Chars("STATS"), Chars("Emotion"),
      Chars(" "), Chars("\n"), Chars("x."), Chars("stat"), Chars("AN") }

\* pieces of what a client may post
SanFragments ==
    { Chars("<script>"), Chars("</script>"), Chars("<iframe src=x>"), Chars("<META "),
      Chars("JavaScript:"), Chars("onload ="), Chars("data:text/html"),
      Chars("merhaba"), Chars("  "), Chars(">"), Chars("&") }

ParseInputs == Concats(ParseFragments, MaxParseFragments)
SanInputs == Concats(SanFragments, MaxSanFragments)

ParseStep ==
    /\ fn_pc = "parse"
    /\ fn_out' = parse(fn_in)
    /\ fn_pc' = "parsed"
    /\ UNCHANGED <<fn_in, req_vars, rag_vars, emo_vars>>

InitParse ==
    /\ InitReq
    /\ fn_in \in ParseInputs
    /\ fn_out = ""
    /\ fn_pc = "parse"
    /\ InitRag

NextParse == ParseStep

SpecParse == InitParse /\ [][NextParse]_vars

\* two runs of _sanitize_input on the same text
SanitizeStep ==
    /\ fn_pc = "sanitize"
    /\ fn_out' = <<sanitize_input(fn_in), sanitize_input(fn_in)>>
    /\ fn_pc' = "sanitized"
    /\ UNCHANGED <<fn_in, req_vars, rag_vars, emo_vars>>

InitSanitize ==
    /\ InitReq
    /\ fn_in \in SanInputs
    /\ fn_out = <<>>
    /\ fn_pc = "sanitize"
    /\ InitRag

NextSanitize == SanitizeStep

SpecSanitize == InitSanitize /\ [][NextSanitize]_vars

----------------------------------------------------------------------------
(* The sanitizer of a flow on the message that _sanitize_input produced    *)

MaxFlowFragments == 2

\* pieces of what a client may post
FlowFragments ==
    { Chars("merhaba"), Chars("Tom & Jerry"), Chars("&"), Chars("<b>"), Chars("\"kedi\""),
      Chars("'"), Chars("  "), Chars("&amp;"), Chars("<script>x</script>") }

FlowInputs == Concats(FlowFragments, MaxFlowFragments)

\* the sentinel of the sanitizer of each flow
flow_sentinel(flow) == IF flow = "RAG" THEN RAG_BLOCKED ELSE BLOCKED

\* chat: `user_message = _sanitize_input(user_message)`; a blocked message ends
\* the request
BoundarySanitize ==
    /\ fn_pc = "boundary"
    /\ fn_out' = [boundary |-> sanitize_input(fn_in), flow |-> "none", inner |-> <<>>]
    /\ fn_pc' = IF sanitize_input(fn_in) = BLOCKED THEN "blocked" ELSE "flow"
    /\ UNCHANGED <<fn_in, req_vars, rag_vars, emo_vars>>

\* _sanitize_emotion_input, _sanitize_animal_input or _sanitize_rag_query on the
\* message that the flow was handed
FlowSanitize ==
    /\ fn_pc = "flow"
    /\ \E flow \in {"EMOTION", "ANIMAL", "RAG"} :
          fn_out' = [boundary |-> fn_out.boundary, flow |-> flow,
                     inner |-> sanitize_with(fn_out.boundary, SUBFLOW_PATTERNS,
                                             flow_sentinel(flow))]
    /\ fn_pc' = "inner"
    /\ UNCHANGED <<fn_in, req_vars, rag_vars, emo_vars>>

InitFlowSanitize ==
    /\ InitReq
    /\ InitRag
    /\ fn_in \in FlowInputs
    /\ fn_out = [boundary |-> <<>>, flow |-> "none", inner |-> <<>>]
    /\ fn_pc = "boundary"

NextFlowSanitize ==
    \/ BoundarySanitize
    \/ FlowSanitize

SpecFlowSanitize == InitFlowSanitize /\ [][NextFlowSanitize]_vars

----------------------------------------------------------------------------
(* Two first emotion requests in emotion_processor at the same time        *)

\* The endpoint is a plain `def`: each request runs emotion_processor in a
\* worker thread. `if chatbot_instance is None`, the probe, the assignment to
\* the global and the call of chatbot_instance.chat are separate steps of a
\* thread, and no lock is held between them.
InstanceOf(t) == IF t = 1 THEN "instance_1" ELSE "instance_2"

Instances == {InstanceOf(t) : t \in ChatThreads}

\* the message of the request each thread serves
ThreadMessage(t) == IF t = 1 THEN Chars("bugün mutluyum") ELSE Chars("çok yorgunum")

\* both threads before `if chatbot_instance is None`; installed: the instances
\* assigned to the global, in order; chats: the chats each instance served
\* (its messages and the increments of its emotion_counts)
NoProcessor ==
    [pc |-> [t \in ChatThreads |-> "check"], using |-> [t \in ChatThreads |-> "none"],
     installed |-> <<>>, chats |-> [i \in Instances |-> 0]]

proc_rest ==
    <<pc, llm, llm_trace, payload, user_message, flow_decision, calls, result,
      emotion_counts, chat_log, nreq, snap, fn_in, fn_pc, rag_vars, emo_vars>>

\* `if chatbot_instance is None:`
ProcessorCheck(t) ==
    /\ fn_out.pc[t] = "check"
    /\ fn_out' = [fn_out EXCEPT !.pc[t] = IF chatbot_instance = "none" THEN "probe" ELSE "call"]
    /\ UNCHANGED <<chatbot_instance, memory, proc_rest>>

\* the test call of the try block; when it raises, `EmotionChatbot()` raises in
\* the except block and the request leaves emotion_processor
ProcessorProbe(t) ==
    /\ fn_out.pc[t] = "probe"
    /\ \E ok \in BOOLEAN :
          fn_out' = [fn_out EXCEPT !.pc[t] = IF ok THEN "construct" ELSE "raised"]
    /\ UNCHANGED <<chatbot_instance, memory, proc_rest>>

\* `EmotionChatbot(client)`: the constructor returns a new instance
ProcessorConstruct(t) ==
    /\ fn_out.pc[t] = "construct"
    /\ fn_out' = [fn_out EXCEPT !.pc[t] = "install"]
    /\ UNCHANGED <<chatbot_instance, memory, proc_rest>>

\* `chatbot_instance = ...`: the instance is stored in the global
ProcessorInstall(t) ==
    /\ fn_out.pc[t] = "install"
    /\ chatbot_instance' = InstanceOf(t)
    /\ fn_out' = [fn_out EXCEPT !.pc[t] = "call",
                                !.installed = Append(@, InstanceOf(t))]
    /\ UNCHANGED <<memory, proc_rest>>

\* `chatbot_instance.chat`: the global is read and the method of that instance bound
ProcessorCall(t) ==
    /\ fn_out.pc[t] = "call"
    /\ fn_out' = [fn_out EXCEPT !.pc[t] = "chat", !.using[t] = chatbot_instance]
    /\ UNCHANGED <<chatbot_instance, memory, proc_rest>>

\* chat runs on the bound instance: its messages and emotion_counts grow
ProcessorChat(t) ==
    /\ fn_out.pc[t] = "chat"
    /\ fn_out' = [fn_out EXCEPT !.pc[t] = "save", !.chats[fn_out.using[t]] = @ + 1]
    /\ UNCHANGED <<chatbot_instance, memory, proc_rest>>

\* `memory.save_context(...)` behind the chat
ProcessorSave(t) ==
    /\ fn_out.pc[t] = "save"
    /\ memory' = save_context(memory, ThreadMessage(t), "EMOTION_REPLY")
    /\ fn_out' = [fn_out EXCEPT !.pc[t] = "done"]
    /\ UNCHANGED <<chatbot_instance, proc_rest>>

InitProcessor ==
    /\ InitReq
    /\ InitRag
    /\ fn_in = <<>>
    /\ fn_out = NoProcessor
    /\ fn_pc = "threads"

NextProcessor ==
    \E t \in ChatThreads :
        \/ ProcessorCheck(t)
        \/ ProcessorProbe(t)
        \/ ProcessorConstruct(t)
        \/ ProcessorInstall(t)
        \/ ProcessorCall(t)
        \/ ProcessorChat(t)
        \/ ProcessorSave(t)

SpecProcessor == InitProcessor /\ [][NextProcessor]_vars

----------------------------------------------------------------------------
(* Properties *)

\* the Stage-2 handlers calls holds, in the order they began
HandlersOf(log) == SelectSeq(log, LAMBDA c : c \in {"RAG", "ANIMAL", "EMOTION", "STATS", "HELP"})

\* C1: within one request the classification call comes before every Stage-2
\* handler, the handler that runs is the one the decision names (HELP for any
\* other decision), and a second handler runs only as HELP after a RAG handler
\* whose retrieval came back empty.
C1_StageOrder ==
    /\ HandlersOf(calls) # <<>> =>
          /\ calls[1] = "classify"
          /\ HandlersOf(calls)[1] =
                (IF flow_decision \in {"RAG", "ANIMAL", "EMOTION", "STATS"}
                 THEN flow_decision ELSE "HELP")
    /\ \A i \in 2..Len(calls) : calls[i] # "classify"
    /\ \/ Len(HandlersOf(calls)) <= 1
       \/ /\ HandlersOf(calls) = <<"RAG", "HELP">>
          /\ Len(calls) = 5
          /\ calls[4] = "empty"
          /\ calls[5] = "HELP"

\* a request decided RAG that fell from the RAG handler to HELP
C1_Witness ==
    /\ pc = "done"
    /\ HandlersOf(calls) = <<"RAG", "HELP">>
    /\ flow_decision = "RAG"

\* C2: parse returns the first label of ANIMAL, RAG, EMOTION, STATS, HELP that
\* occurs in the trimmed, upper-cased text, and HELP when none occurs; the
\* result is one of the five labels.
C2_FirstLabel ==
    fn_pc = "parsed" =>
        /\ fn_out \in {"ANIMAL", "RAG", "EMOTION", "STATS", "HELP"}
        /\ fn_out # "HELP" => Contains(upper(strip(fn_in)), Chars(fn_out))
        /\ fn_out # "ANIMAL" => ~Contains(upper(strip(fn_in)), Chars("ANIMAL"))
        /\ fn_out \notin {"ANIMAL", "RAG"} => ~Contains(upper(strip(fn_in)), Chars("RAG"))
        /\ fn_out \in {"STATS", "HELP"} => ~Contains(upper(strip(fn_in)), Chars("EMOTION"))
        /\ fn_out = "HELP" => ~Contains(upper(strip(fn_in)), Chars("STATS"))

\* a lower-case label after another label, with words around: the earlier label
\* of the list wins
C2_Witness ==
    /\ fn_pc = "parsed"
    /\ fn_out = "ANIMAL"
    /\ Contains(fn_in, Chars("RAG"))
    /\ Contains(fn_in, Chars("animal"))

\* C3: a RAG decision whose retrieval (general or by source) yields no chunk
\* ends without a call of rag_chain, with the help flow's text and flow_type
\* HELP, and without an error.
C3_EmptyRetrievalHelp ==
    (pc = "done" /\ Len(calls) >= 4 /\ calls[2] = "RAG" /\ calls[4] = "empty") =>
        /\ \A i \in 1..Len(calls) : calls[i] # "rag_chain"
        /\ "error" \notin DOMAIN result
        /\ result = [help |-> TRUE, response |-> "HELP_MESSAGE", flow_type |-> "HELP"]

\* a source-filtered retrieval that found nothing
C3_Witness ==
    /\ pc = "done"
    /\ Len(calls) >= 4
    /\ calls[2] = "RAG"
    /\ calls[3] = "retrieve_by_source"
    /\ calls[4] = "empty"
    /\ "response" \in DOMAIN result

\* C4 as written: an ANIMAL decision whose router selects nothing ends with the
\* help flow's text and flow_type HELP.
C4_NullAnimalToHelp ==
    (pc = "done" /\ Len(calls) >= 3 /\ calls[2] = "ANIMAL" /\ calls[3] = "routed_none") =>
        /\ "flow_type" \in DOMAIN result
        /\ result.flow_type = "HELP"
        /\ result.response = "HELP_MESSAGE"

\* C4: an ANIMAL decision whose router selects nothing ends in the animal
\* handler itself, with its fixed not-found text and flow_type ANIMAL; the help
\* flow does not run and the exchange is saved to memory.
C4_NullAnimalNotFound ==
    (pc = "done" /\ Len(calls) >= 3 /\ calls[2] = "ANIMAL" /\ calls[3] = "routed_none") =>
        /\ result = [response |-> "ANIMAL_NOT_FOUND", flow_type |-> "ANIMAL"]
        /\ HandlersOf(calls) = <<"ANIMAL">>
        /\ memory = Append(snap.memory, [input |-> user_message, output |-> "ANIMAL_NOT_FOUND"])

\* a message without an animal keyword, decided ANIMAL
C4_Witness ==
    /\ pc = "done"
    /\ calls = <<"classify", "ANIMAL", "routed_none">>
    /\ user_message = Chars("merhaba")

\* C5 as written: a classification call that raises resolves to HELP, and the
\* request returns the help response, never an {error}.
C5_ClassifyFailureToHelp ==
    (pc = "done" /\ Len(calls) >= 2 /\ calls[1] = "classify" /\ calls[2] = "raise") =>
        /\ "error" \notin DOMAIN result
        /\ "response" \in DOMAIN result
        /\ result.flow_type = "HELP"

\* C6: the primary backend is probed first; the secondary is probed only after
\* the primary failed; the primary is returned after its own success alone; the
\* error is raised only after both failed.
C6_PrimaryFirst ==
    /\ Len(llm_trace) <= 2
    /\ llm_trace # <<>> => llm_trace[1].backend = "openai"
    /\ Len(llm_trace) = 2 => (~llm_trace[1].ok /\ llm_trace[2].backend = "gemini")
    /\ llm = "openai" => llm_trace = <<[backend |-> "openai", ok |-> TRUE]>>
    /\ llm = "gemini" => (Len(llm_trace) = 2 /\ llm_trace[2].ok)
    /\ pc = "crashed" =>
          llm_trace = <<[backend |-> "openai", ok |-> FALSE], [backend |-> "gemini", ok |-> FALSE]>>
    /\ (llm_trace # <<>> /\ llm_trace[1].ok) => (pc # "boot_secondary" /\ llm = "openai")

\* the primary failed and the secondary serves the requests
C6_Witness ==
    /\ llm = "gemini"
    /\ pc = "done"
    /\ llm_trace = <<[backend |-> "openai", ok |-> FALSE], [backend |-> "gemini", ok |-> TRUE]>>

\* C7 as written: a sanitized message of more than 1000 estimated tokens gets
\* no classification call and the result of the EMOTION or HELP handler.
C7_OverBudgetToDefaultFlow ==
    (pc = "done" /\ Len(user_message) \div 4 > 1000) =>
        /\ \A i \in 1..Len(calls) : calls[i] # "classify"
        /\ "flow_type" \in DOMAIN result
        /\ result.flow_type \in {"EMOTION", "HELP"}

\* C7: a message that, after sanitization and the summarization attempt, has
\* more than 1000 estimated tokens (length // 4) gets an {error} result; no
\* classification call is issued, no handler runs, nothing is stored.
C7_OverBudgetError ==
    (pc = "done" /\ Len(user_message) \div 4 > 1000) =>
        /\ result = [error |-> "TOO_MANY_TOKENS"]
        /\ calls = <<>>
        /\ memory = snap.memory
        /\ emotion_counts = snap.emotion_counts
        /\ chat_log = snap.chat_log

\* 2000 characters or fewer posted, 1001 tokens after the escape
C7_Witness ==
    /\ pc = "done"
    /\ Len(payload) <= 2000
    /\ Len(user_message) \div 4 = 1001
    /\ "error" \in DOMAIN result

\* C8: an empty message, or one longer than 2000 characters once stripped, gets
\* an {error} result; no classification call, no handler, and memory, mood
\* counters and chat log stay as they were.
C8_RejectedUntouched ==
    (pc = "done" /\ (Len(strip(payload)) = 0 \/ Len(strip(payload)) > 2000)) =>
        /\ DOMAIN result = {"error"}
        /\ calls = <<>>
        /\ memory = snap.memory
        /\ emotion_counts = snap.emotion_counts
        /\ chat_log = snap.chat_log

\* a message of 2001 characters
C8_Witness ==
    /\ pc = "done"
    /\ Len(strip(payload)) = 2001
    /\ result = [error |-> "MESSAGE_TOO_LONG"]

\* C9 as written: a text in which a denylist pattern matches, whatever stands
\* around the match, is answered by the blocked sentinel, the same on both runs.
C9_DenylistBlocked ==
    (fn_pc = "sanitized" /\ matches_any(DANGEROUS_PATTERNS, fn_in)) =>
        /\ fn_out[1] = BLOCKED
        /\ fn_out[2] = fn_out[1]

\* C10: whatever the message and whichever collaborators fail, chat ends with a
\* dict that holds an "error" field or a "response" field.
C10_AlwaysDict ==
    pc = "done" => ("error" \in DOMAIN result \/ "response" \in DOMAIN result)

\* a handler raised and its request ended with an {error} dict
C10_Witness ==
    /\ pc = "done"
    /\ Len(calls) >= 3
    /\ calls[Len(calls)] = "raise"
    /\ DOMAIN result = {"error"}

InModelWait == rag_call.pc \in {"gc_embedder", "gc_poll"}

\* C14: a call that needs the embedding model sleeps in the wait loop of
\* _get_collection at most 30 times, goes to the synchronous load only when
\* the model is still absent, and always gets past the wait.
C14_BoundedModelWait ==
    /\ [](rag_call.polls <= POLL_LIMIT)
    /\ [][(rag_call.pc # "gc_load" /\ rag_call'.pc = "gc_load") => ~rag_service.embedder]_vars
    /\ (InModelWait ~> ~InModelWait)

\* a call slept 30 times while the background load was still running and now
\* loads the model itself
C14_Witness ==
    /\ rag_call.pc = "gc_load"
    /\ rag_call.polls = POLL_LIMIT
    /\ loader = "running"
    /\ rag_service.model_loading

\* C15: retrieve_top and retrieve_by_source never raise: whatever fails on the
\* way to the index (the client, the model, the collection, the query), the
\* call returns the empty list.
C15_UnreachableIndexEmpty ==
    (rag_call.op \in {"retrieve_top", "retrieve_by_source"} /\ rag_call.pc = "returned")
       => rag_call.out \in {"empty", "chunks"}

\* the distance between the starts of two consecutive windows
ChunkStride == CHUNK_SIZE - CHUNK_OVERLAP

\* the first chunk followed by every later chunk without its first 150 characters
RECURSIVE Rejoin(_, _)
Rejoin(chunks, k) ==
    IF k = 0 THEN <<>>
    ELSE IF k = 1 THEN chunks[1]
    ELSE Rejoin(chunks, k - 1) \o SubSeq(chunks[k], CHUNK_OVERLAP + 1, Len(chunks[k]))

\* chunks are windows of text in order, 900 characters at most, each starting
\* 750 characters after the one before and sharing 150 characters with it
WindowsOf(chunks, text) ==
    /\ \A i \in 1..Len(chunks) :
          /\ Len(chunks[i]) >= 1
          /\ Len(chunks[i]) <= CHUNK_SIZE
          /\ chunks[i] = SubSeq(text, (i - 1) * ChunkStride + 1,
                                Min(Len(text), (i - 1) * ChunkStride + CHUNK_SIZE))
    /\ \A i \in 1..(Len(chunks) - 1) :
          /\ Len(chunks[i]) = CHUNK_SIZE
          /\ Len(chunks[i + 1]) > CHUNK_OVERLAP
          /\ SubSeq(chunks[i], ChunkStride + 1, CHUNK_SIZE)
                = SubSeq(chunks[i + 1], 1, CHUNK_OVERLAP)

\* C12 as the claim words it: the chunks are ordered windows of at most 900
\* characters, neighbours share exactly 150, and joining them without the
\* overlaps gives back the text that was passed in.
C12_RejoinGivesInput ==
    fn_pc = "out"
       => /\ WindowsOf(fn_out.chunks, strip(fn_in))
          /\ Rejoin(fn_out.chunks, Len(fn_out.chunks)) = fn_in

\* C12: the chunks are ordered windows of at most 900 characters of the text
\* without its leading and trailing white space, neighbours share exactly 150
\* characters, and joining them without the overlaps gives back that stripped
\* text.
C12_RejoinGivesStripped ==
    fn_pc = "out"
       => /\ WindowsOf(fn_out.chunks, strip(fn_in))
          /\ Rejoin(fn_out.chunks, Len(fn_out.chunks)) = strip(fn_in)

\* a text with white space around it came back as three or more chunks
C12_Witness ==
    /\ fn_pc = "out"
    /\ Len(fn_out.chunks) >= 3
    /\ strip(fn_in) # fn_in

\* ceil(a / b) for b > 0
CeilDiv(a, b) == -((-a) \div b)

\* C13 as the claim words it: a non-empty text of length len gives
\* ceil((len - 150) / 750) chunks, and the loop ends.
C13_CountByFormula ==
    /\ [](fn_pc = "out" /\ Len(fn_in) > 0
             => Len(fn_out.chunks) = CeilDiv(Len(fn_in) - CHUNK_OVERLAP, ChunkStride))
    /\ <>(fn_pc = "out")

\* C13: with len the length of the text without its leading and trailing
\* white space, a text with len > 0 gives max(1, ceil((len - 150) / 750))
\* chunks, a text with len = 0 gives none, and the loop ends.
C13_CountOfStripped ==
    /\ [](fn_pc = "out"
             => Len(fn_out.chunks) =
                   IF Len(strip(fn_in)) = 0 THEN 0
                   ELSE Max(1, CeilDiv(Len(strip(fn_in)) - CHUNK_OVERLAP, ChunkStride)))
    /\ <>(fn_pc = "out")

\* a text of at most 150 characters came back as one chunk
C13_Witness ==
    /\ fn_pc = "out"
    /\ Len(fn_in) > 0
    /\ Len(strip(fn_in)) <= CHUNK_OVERLAP
    /\ Len(fn_out.chunks) = 1

\* the mood fields of a reply that name the label m once trimmed
FieldsNaming(reply, m) ==
    Cardinality({ i \in 1..3 : strip(Chars(reply.moods[i])) = Chars(m) })

\* the mood fields of a reply whose trimmed value is one of the ten labels
KnownFields(reply) ==
    Cardinality({ i \in 1..3 : \E m \in Moods : strip(Chars(reply.moods[i])) = Chars(m) })

RECURSIVE SumCounts(_, _)
SumCounts(counts, k) ==
    IF k = 0 THEN 0 ELSE counts[allowed_moods[k]] + SumCounts(counts, k - 1)

\* the chat returned a dict
ChatReturned == emotion_call.op = "chat" /\ "raise" \notin DOMAIN emotion_call.ret

\* the chat refused its message before asking the model
ChatRejected ==
    /\ ChatReturned
    /\ emotion_call.ret.response \in {"EMPTY_MESSAGE", "EMOTION_TOO_LONG", "FILTERED"}

\* the chat returned a classification (the answer with the emojis)
ChatClassified == ChatReturned /\ "emoji" \in DOMAIN emotion_call.ret

\* C16: a chat changes the counters only by incrementing. After a chat that
\* classified, each label's counter has grown by the number of mood fields
\* naming it once trimmed, so the sum by the number (0 to 3) of fields with a
\* known label; a field with another label fails nothing; after any other
\* chat the counters are as before. The keys are always the ten labels and
\* the values never negative.
C16_CountersOnlyIncrement ==
    /\ DOMAIN emotion_counts = Moods
    /\ \A m \in Moods : emotion_counts[m] \in Nat
    /\ emotion_call.op = "chat" =>
          /\ \A m \in Moods :
                emotion_counts[m] - emotion_call.before.counts[m]
                   = IF ChatClassified THEN FieldsNaming(emotion_call.reply, m) ELSE 0
          /\ SumCounts(emotion_counts, Len(allowed_moods))
                - SumCounts(emotion_call.before.counts, Len(allowed_moods))
                   = IF ChatClassified THEN KnownFields(emotion_call.reply) ELSE 0
          /\ KnownFields(emotion_call.reply) \in 0..3

\* a classification with a padded known label, a bare known label and an
\* unknown label has raised the sum by two
C16_Witness ==
    /\ ChatClassified
    /\ emotion_call.reply.moods = <<" Üzgün ", "Mutlu", "Neseli">>
    /\ emotion_counts["Üzgün"] = emotion_call.before.counts["Üzgün"] + 1
    /\ emotion_counts["Mutlu"] = emotion_call.before.counts["Mutlu"] + 1

\* the reply has no JSON object, or one that lacks a required field
ReplyUnclassifiable ==
    /\ emotion_call.op = "chat"
    /\ ~ChatRejected
    /\ emotion_call.reply.kind = "content"
    /\ \/ ~emotion_call.reply.has_json
       \/ \E k \in required_keys : k \notin emotion_call.reply.keys

IsPrefix(a, b) == Len(a) <= Len(b) /\ SubSeq(b, 1, Len(a)) = a

C19_SavedCountsReload ==
    /\ (emotion_call.op = "init" /\ emotion_call.saved.written)
          => emotion_counts = emotion_call.saved.counts
    /\ (ChatClassified /\ emotion_call.reply.save_ok)
          => init_counts(load_mood_counts(mood_file)) = emotion_counts

\* after a restart the new instance holds the 13 that the last run saved
C19_Witness ==
    /\ emotion_call.op = "init"
    /\ emotion_call.saved.written
    /\ emotion_counts["Üzgün"] = 13
    /\ emotion_counts["Mutlu"] = 3

\* C20: a key of the counter file that is not one of the ten labels appears
\* neither in the counters of the emotion engine nor in the counts or the
\* summary of the statistics engine, and no load fails.
C20_UnknownKeyIgnored ==
    /\ DOMAIN emotion_counts = Moods
    /\ emotion_call.op = "stats" =>
          /\ DOMAIN emotion_call.ret.counts \subseteq Moods
          /\ \A i \in 1..Len(emotion_call.ret.summary) :
                \E m \in Moods :
                   emotion_call.ret.summary[i].mood \in {Chars(m), lower(Chars(m))}

\* the mood fields of the log's lines of one day that hold mood m (blanks around it aside)
TodayOccurrences(log, today, m) ==
    Cardinality({ p \in (1..Len(log)) \X (1..3) :
                    /\ SubSeq(log[p[1]].timestamp, 1, Len(today)) = today
                    /\ log[p[1]].response.kind = "object"
                    /\ strip(Chars(log[p[1]].response.moods[p[2]])) = Chars(m) })

\* the number the file holds for mood m
FileValue(file, m) ==
    LET last == CHOOSE i \in 1..Len(file.items) :
                    file.items[i].key = m /\ \A j \in (i + 1)..Len(file.items) : file.items[j].key # m
    IN  digits_to_int(file.items[last].value.text)

FileHolds(file, m) ==
    /\ file.kind = "object"
    /\ \A i \in 1..Len(file.items) : file.items[i].value.type = "number"
    /\ \E i \in 1..Len(file.items) : file.items[i].key = m

\* C21: for the period today the count of every mood is the number of its
\* occurrences in the three mood fields of the log lines whose timestamp starts
\* with today's date, lines of other days adding nothing; for the period all it
\* is the number the mood-counter file holds for the mood
C21_CountsOfPeriod ==
    emotion_call.op = "answer" =>
        \A m \in Moods :
            /\ emotion_call.ret.period = "today" =>
                  emotion_call.ret.counts[m] = TodayOccurrences(chat_log, emotion_call.today, m)
            /\ (emotion_call.ret.period = "all" /\ FileHolds(mood_file, m)) =>
                  emotion_call.ret.counts[m] = FileValue(mood_file, m)

\* three Mutlu records today after two yesterday, five in the file: today's count is 3
C21_Witness ==
    /\ emotion_call.op = "answer"
    /\ chat_log = ExampleLog
    /\ emotion_call.today = Chars("2025-03-02")
    /\ emotion_call.ret.period = "today"
    /\ emotion_call.ret.counts["Mutlu"] = 3
    /\ FileHolds(mood_file, "Mutlu") /\ FileValue(mood_file, "Mutlu") = 5

\* the clauses a summary without a filter must hold: one for every key of the
\* returned counts whose count is not zero
NonZeroClauses(counts) ==
    { [cnt |-> counts[k], mood |-> lower(Chars(k))] : k \in {k \in DOMAIN counts : counts[k] > 0} }

\* C22: with a mood filter the summary names that mood and its count and nothing
\* else, a count of 0 included; without one it is the joined clauses of exactly
\* the moods whose count is not zero, or the "no records yet" sentence when
\* every count is zero
C22_SummaryOfFilter ==
    emotion_call.op = "answer" =>
        LET r == emotion_call.ret
            filter == detect_period_and_emotion(emotion_call.msg).emotion
        IN  IF filter # "none"
            THEN /\ r.sentence = "filter"
                 /\ r.summary = <<[cnt |-> IF filter \in DOMAIN r.counts THEN r.counts[filter] ELSE 0,
                                   mood |-> Chars(filter)]>>
            ELSE IF \A k \in DOMAIN r.counts : r.counts[k] = 0
            THEN r.sentence = "no_records" /\ r.summary = <<>>
            ELSE /\ r.sentence = "clauses"
                 /\ {r.summary[i] : i \in 1..Len(r.summary)} = NonZeroClauses(r.counts)
                 /\ Len(r.summary) = Cardinality(NonZeroClauses(r.counts))

\* a summary of several clauses although some mood has the count 0
C22_Witness ==
    /\ emotion_call.op = "answer"
    /\ emotion_call.ret.sentence = "clauses"
    /\ Len(emotion_call.ret.summary) = 2
    /\ \E m \in Moods : emotion_call.ret.counts[m] = 0

\* a filtered summary of a mood that was never recorded
C22_WitnessZero ==
    /\ emotion_call.op = "answer"
    /\ emotion_call.ret.sentence = "filter"
    /\ emotion_call.ret.summary[1].cnt = 0

\* the index in the label order of the first label whose lower-cased form
\* occurs in t, 0 when none does
FirstLabelIn(t) ==
    LET occurs == { k \in 1..Len(allowed_moods) : Contains(t, lower(Chars(allowed_moods[k]))) }
    IN  IF occurs = {} THEN 0 ELSE CHOOSE k \in occurs : \A j \in occurs : k <= j

\* the period and the mood the keywords of a lower-cased message stand for
KeywordQuery(t) ==
    [period |-> IF \E w \in {Chars("bugün"), Chars("today"), Chars("günlük")} : Contains(t, w)
                THEN "today" ELSE "all",
     emotion |-> IF FirstLabelIn(t) = 0 THEN "none" ELSE allowed_moods[FirstLabelIn(t)]]

\* t without its white space
Squeezed(t) == SelectSeq(t, LAMBDA c : ~IsSpace(c))

\* the complete call texts that name period p, and those that name mood m
CallNames == {lower(Chars(m)) : m \in Moods} \cup {Chars("neseli")}
CallsOfPeriod(p) ==
    LET head == Chars("get_emotion_stats(")
        per  == Chars("period=\"") \o Chars(p) \o Chars("\"")
        emo(x) == Chars("emotion=\"") \o x \o Chars("\"")
    IN  {head \o per \o Chars(")")}
        \cup {head \o per \o Chars(",") \o emo(x) \o Chars(")") : x \in CallNames}
        \cup {head \o emo(x) \o Chars(",") \o per \o Chars(")") : x \in CallNames}
CallsOfMood(m) ==
    LET head == Chars("get_emotion_stats(")
        emo  == Chars("emotion=\"") \o lower(Chars(m)) \o Chars("\"")
        per(p) == Chars("period=\"") \o Chars(p) \o Chars("\"")
    IN  {head \o emo \o Chars(")")}
        \cup {head \o emo \o Chars(",") \o per(p) \o Chars(")") : p \in {"today", "all"}}
        \cup {head \o per(p) \o Chars(",") \o emo \o Chars(")") : p \in {"today", "all"}}
HoldsOneOf(t, texts) == \E w \in texts : Contains(t, w)

EndsAllowed(s) ==
    \E ext \in {Chars(".jpg"), Chars(".jpeg"), Chars(".png"), Chars(".gif"), Chars(".webp")} :
        Len(s) >= Len(ext) /\ SubSeq(s, Len(s) - Len(ext) + 1, Len(s)) = ext

AllowedImage(url) == EndsAllowed(lower(strip(url)))

\* what dog_photo owes for its fetches f, of which those at images are images
DogPhotoOwes(f, images) ==
    /\ Len(f) <= 6
    /\ \A i \in images : i = Len(f)
    /\ (fn_pc = "done" /\ fn_out.ret.type # "raise") =>
          IF images # {}
          THEN fn_out.ret = [type |-> "image", animal |-> "dog", image_url |-> strip(f[Len(f)])]
          ELSE /\ Len(f) = 6
               /\ fn_out.ret = [type |-> "text", animal |-> "dog", text |-> "DOG_PHOTO_NOT_FOUND"]

\* C24: dog_photo issues at most 6 fetches; it stops at the first fetch whose
\* URL ends, in any case, in .jpg, .jpeg, .png, .gif or .webp and returns that
\* URL as an image; after 6 fetches of other URLs it returns the text apology;
\* it never returns an image whose URL is not of the five extensions
C24_DogPhotoTries ==
    fn_out.action = "dog_photo" =>
        DogPhotoOwes(fn_out.fetches,
                     {i \in 1..Len(fn_out.fetches) : AllowedImage(fn_out.fetches[i])})

\* the fourth fetch is the first with an image URL, written in capitals, and is returned
C24_Witness ==
    /\ fn_pc = "done"
    /\ fn_out.action = "dog_photo"
    /\ Len(fn_out.fetches) = 4
    /\ fn_out.ret.type = "image"
    /\ fn_out.ret.image_url = Chars("https://random.dog/c.JPG")

\* six fetches without an image end in the apology
C24_WitnessApology ==
    /\ fn_pc = "done"
    /\ fn_out.action = "dog_photo"
    /\ Len(fn_out.fetches) = 6
    /\ fn_out.ret.type = "text"

\* the six keyword rules in their order: the action, the animal words, the intent words
KeywordRules ==
    << [action |-> "dog_photo",  animal |-> {"köpek", "dog"},  intent |-> {"foto", "resim", "image", "photo"}],
       [action |-> "dog_facts",  animal |-> {"köpek", "dog"},  intent |-> {"fact", "bilgi"}],
       [action |-> "cat_facts",  animal |-> {"kedi", "cat"},   intent |-> {"fact", "bilgi"}],
       [action |-> "cat_photo",  animal |-> {"kedi", "cat"},   intent |-> {"foto", "resim", "image", "photo"}],
       [action |-> "fox_photo",  animal |-> {"tilki", "fox"},  intent |-> {"foto", "resim", "image", "photo"}],
       [action |-> "duck_photo", animal |-> {"ördek", "duck"}, intent |-> {"foto", "resim", "image", "photo"}] >>

RuleMatches(k, t) ==
    /\ \E w \in KeywordRules[k].animal : Contains(t, Chars(w))
    /\ \E w \in KeywordRules[k].intent : Contains(t, Chars(w))

\* C25: once the call of the gateway (or the action it named) raised inside
\* route_animals, the action is the one of the first keyword rule, in the order
\* dog photo, dog fact, cat fact, cat photo, fox photo, duck photo, whose animal
\* word and intent word both occur in the lower-cased message, and None is
\* returned when no rule matches
C25_KeywordFallback ==
    fn_out.via = "keywords" =>
        LET t == lower(fn_out.text)
            matching == {k \in 1..Len(KeywordRules) : RuleMatches(k, t)}
        IN  IF matching = {}
            THEN fn_out.action = "none" /\ fn_pc = "done" /\ fn_out.ret = NoAnimal
            ELSE \E k \in matching :
                    /\ \A j \in matching : k <= j
                    /\ fn_out.action = KeywordRules[k].action

\* "cat photo fact" after a gateway that raised: the cat fact rule comes first
C25_Witness ==
    /\ fn_out.via = "keywords"
    /\ fn_in = Chars("cat photo fact")
    /\ fn_out.action = "cat_facts"
    /\ fn_pc = "done"
    /\ fn_out.ret.type = "text"

\* "tilki bilgi" after a gateway that raised: no rule, None
C25_WitnessNone ==
    /\ fn_out.via = "keywords"
    /\ fn_in = Chars("tilki bilgi")
    /\ fn_out.ret = NoAnimal

\* C26: an emotion request during which the probe of the primary backend
\* failed, so that no chat engine exists after it, is still answered with a
\* response and does not end in an {error} result
C26_ProbeFailureAnswered ==
    (pc = "done" /\ HandlersOf(calls) = <<"EMOTION">> /\ chatbot_instance = "none") =>
        /\ "response" \in DOMAIN result
        /\ "error" \notin DOMAIN result

\* both requests have saved
RaceOver == \A t \in ChatThreads : fn_pc[t] = "done"

\* the increments of mood m that both requests performed
RaceIncrements(m) == fn_out[1].incs[m] + fn_out[2].incs[m]

\* C27: nothing orders the increments and saves of two concurrent emotion
\* requests: when both have saved, the mood-counter file holds what the request
\* that wrote last had dumped, and that is never more than the increments both
\* performed (the witness is an interleaving in which it is less)
C27_LastWriteWins ==
    RaceOver =>
        /\ mood_file = json_dumps_counts(fn_out[emotion_call.n].dumped)
        /\ \A m \in Moods : FileValue(mood_file, m) <= RaceIncrements(m)

\* both requests have saved and the file holds fewer Mutlu than they added
C27_Witness ==
    /\ RaceOver
    /\ FileValue(mood_file, "Mutlu") < RaceIncrements("Mutlu")

\* the callers of ensure_index that scanned the documents or issued a col.add
IndexWriters == {t \in ChatThreads : rag_call[t].scanned \/ Len(rag_call[t].log) > 0}

\* C28: of two requests that call ensure_index at the same time on an empty
\* collection at most one scans the documents and issues add calls; the other
\* sees a populated collection and writes nothing
C28_PopulatedOnce ==
    (\A t \in ChatThreads : rag_call[t].pc = "returned") => Cardinality(IndexWriters) <= 1

\* the col.add calls of a log that offered chunk c in a batch, in a sub-batch
OffersOf(log, kind, c) ==
    {k \in 1..Len(log) : log[k].kind = kind /\ log[k].lo <= c /\ c < log[k].hi}

\* what first-time indexing owes chunk c: one batch that holds it, and one
\* sub-batch after that batch exactly when the batch failed
ChunkOffered(log, c) ==
    /\ Cardinality(OffersOf(log, "batch", c)) = 1
    /\ \A b \in OffersOf(log, "batch", c) :
          IF log[b].ok THEN OffersOf(log, "mini", c) = {}
          ELSE /\ Cardinality(OffersOf(log, "mini", c)) = 1
               /\ \A s \in OffersOf(log, "mini", c) : s > b

\* C30: in first-time indexing every chunk is offered in one add call of a
\* batch of at most 1000; only if that batch fails it is offered once more, in a
\* sub-batch of at most 500; a failed sub-batch is not offered again, no failure
\* keeps the later sub-batches and batches from being tried, and ensure_index
\* returns the status "ok"
C30_BatchesAndRetry ==
    \A t \in ChatThreads :
        /\ \A k \in 1..Len(rag_call[t].log) :
              /\ rag_call[t].log[k].lo < rag_call[t].log[k].hi
              /\ rag_call[t].log[k].hi - rag_call[t].log[k].lo
                    <= (IF rag_call[t].log[k].kind = "batch" THEN 1000 ELSE 500)
        /\ rag_call[t].pc # "returned" => rag_call[t].out = "none"
        /\ (rag_call[t].pc = "returned" /\ rag_call[t].scanned) =>
              /\ rag_call[t].out = "ok"
              /\ \A c \in 0..(rag_call[t].n - 1) : ChunkOffered(rag_call[t].log, c)

\* 1501 chunks: the first batch and its first sub-batch failed, the second
\* sub-batch and the second batch were still offered, and the call returned
C30_Witness ==
    \E t \in ChatThreads :
        /\ rag_call[t].pc = "returned"
        /\ rag_call[t].n = 1501
        /\ Len(rag_call[t].log) = 4
        /\ ~rag_call[t].log[1].ok /\ ~rag_call[t].log[2].ok
        /\ rag_call[t].log[3] = [lo |-> 500, hi |-> 1000, kind |-> "mini", ok |-> TRUE]
        /\ rag_call[t].log[4] = [lo |-> 1000, hi |-> 1501, kind |-> "batch", ok |-> TRUE]

\* C29: a request whose 30 polls went by without a model calls _init_embedder
\* itself, the background thread still loading or not; when its load and the
\* background load both succeed the model has been built twice, and
\* self._embedder is the model of the thread that finished last
C29_DuplicateLoad ==
    /\ [][(rag_call.pc = "gc_recheck" /\ rag_call.polls = POLL_LIMIT /\ rag_call' # rag_call
             /\ ~rag_service.embedder)
          => rag_call'.pc = "gc_load"]_vars
    /\ [][(rag_call.pc = "gc_load" /\ rag_call'.pc = "gc_col" /\ loader # "unstarted"
             /\ rag_service.loads = <<"loader">>)
          => (rag_service'.loads = <<"loader", "request">>
                /\ rag_service'.embedder_of = "request")]_vars
    /\ [][(loader = "running" /\ loader' = "finally" /\ rag_service' # rag_service
             /\ rag_service.loads = <<"request">>)
          => (rag_service'.loads = <<"request", "loader">>
                /\ rag_service'.embedder_of = "loader")]_vars
    /\ [](rag_service.embedder_of =
             (IF rag_service.loads = <<>> THEN "none"
              ELSE rag_service.loads[Len(rag_service.loads)]))

\* a request polled 30 times, loaded the model itself, and the background load
\* succeeded after it: two models, the background one in self._embedder
C29_Witness ==
    /\ rag_call.polls = POLL_LIMIT
    /\ rag_call.pc \notin {"gc_poll", "gc_recheck", "gc_load"}
    /\ rag_service.loads = <<"request", "loader">>
    /\ rag_service.embedder_of = "loader"

\* the background load finished first, while the request was loading
C29_WitnessRequestLast ==
    /\ rag_call.polls = POLL_LIMIT
    /\ rag_service.loads = <<"loader", "request">>
    /\ rag_service.embedder_of = "request"

\* the keyword rules of the RAG handler in their order: the document, the words
SourceRules ==
    << [source |-> "cat_care.pdf", words |-> {Chars("kedi"), Chars("cat")}],
       [source |-> "parrot_care.pdf",
        words |-> {Chars("papa") \o <<g_breve>> \o Chars("an"), Chars("parrot"),
                   Chars("ku") \o <<s_cedilla>>}],
       [source |-> "rabbit_care.pdf",
        words |-> {Chars("tav") \o <<s_cedilla>> \o Chars("an"), Chars("rabbit")}] >>

\* the rules of which a word occurs in t
SourceMatches(t) ==
    {k \in 1..Len(SourceRules) : \E w \in SourceRules[k].words : Contains(t, w)}

\* the one retrieval the rules ask for, for the rules that match
RetrievalOwed(matching, retrieval) ==
    IF matching = {}
    THEN retrieval.fn = "retrieve_top" /\ retrieval.source = ""
    ELSE /\ retrieval.fn = "retrieve_by_source"
         /\ \E k \in matching : (\A j \in matching : k <= j)
                                   /\ retrieval.source = SourceRules[k].source

\* C31: the RAG handler runs one retrieval per request: filtered to the
\* document of the first rule, in the order cat, parrot, rabbit, of which a word
\* occurs in the lower-cased message, or the general one when no rule matches;
\* it never runs both, and it calls the completion backend only after a
\* retrieval that returned a chunk
C31_OneRetrieval ==
    /\ Len(fn_out.retrievals) <= 1
    /\ fn_pc \in {"rag_chain", "done"} =>
          /\ Len(fn_out.retrievals) = 1
          /\ RetrievalOwed(SourceMatches(lower(fn_in)), fn_out.retrievals[1])
    /\ fn_out.chains <= 1
    /\ (fn_out.chains = 1 \/ fn_pc = "rag_chain") => fn_out.retrievals[1].out = "chunks"
    /\ (fn_pc = "done" /\ fn_out.retrievals[1].out # "chunks") => fn_out.chains = 0

\* "parrot and cat": only the retrieval filtered to cat_care.pdf, then the answer
C31_Witness ==
    /\ fn_pc = "done"
    /\ fn_in = Chars("parrot and cat")
    /\ Len(fn_out.retrievals) = 1
    /\ fn_out.retrievals[1].fn = "retrieve_by_source"
    /\ fn_out.retrievals[1].source = "cat_care.pdf"
    /\ fn_out.chains = 1
    /\ fn_out.ret = "answer"

\* no keyword: only the general retrieval, which found nothing; no completion
C31_WitnessGeneral ==
    /\ fn_pc = "done"
    /\ fn_out.retrievals[1].fn = "retrieve_top"
    /\ fn_out.retrievals[1].out = "empty"
    /\ fn_out.chains = 0
    /\ fn_out.ret = "none"

----------------------------------------------------------------------------
(* C32 *)

\* the backslashes that stand directly before position j of t, not before s
RECURSIVE BackslashRun(_, _, _)
BackslashRun(t, s, j) ==
    IF j - 1 < s \/ t[j - 1] # "\\" THEN 0 ELSE 1 + BackslashRun(t, s, j - 1)

\* whether position j + 1 lies inside a double-quoted string that opened at or
\* after s, given whether position j does: a quote outside a string opens one,
\* and a quote inside one closes it unless an odd run of backslashes escapes it
QuotedBehind(t, s, j, quoted) ==
    IF t[j] = "\"" /\ ~(quoted /\ BackslashRun(t, s, j) % 2 = 1) THEN ~quoted ELSE quoted

RECURSIVE Quoted(_, _, _)
Quoted(t, s, j) == IF j <= s THEN FALSE ELSE QuotedBehind(t, s, j - 1, Quoted(t, s, j - 1))

\* the braces of t[s..i] outside strings: opened minus closed
BraceDepth(t, bare, s, i) ==
    Cardinality({j \in bare : j <= i /\ t[j] = "{"})
        - Cardinality({j \in bare : j <= i /\ t[j] = "}"})

\* the closing braces outside strings at which the depth is zero
Balancing(t, bare, s) == {i \in bare : t[i] = "}" /\ BraceDepth(t, bare, s, i) = 0}

SpanEnd(t, s, ends) == IF ends = {} THEN 0 ELSE CHOOSE i \in ends : \A k \in ends : i <= k

BalancingFrom(t, s) == Balancing(t, {j \in s..Len(t) : ~Quoted(t, s, j)}, s)

\* the result owed for the unfenced text t whose first `{` stands at s and whose
\* span ends at e (0: there is no balancing `}`)
SpanOwed(t, s, e, out) ==
    IF e = 0 THEN out = NoJson
    ELSE /\ out = json_loads(SubSeq(t, s, e))
         /\ out = extract_json_object(SubSeq(t, s, e))

ExtractOwed(t, out) ==
    IF \A i \in 1..Len(t) : t[i] # "{" THEN out = NoJson
    ELSE SpanOwed(t, find_brace(t), SpanEnd(t, find_brace(t), BalancingFrom(t, find_brace(t))), out)

\* objects that are valid JSON, and balanced spans that are not
ValidBodies ==
    { Chars("{\"kullanici_ruh_hali\": \"Mutlu\", \"n\": 12}"),
      Chars("{}"),
      Chars("{\"a\": \"}\"}"),
      Chars("{\"a\": \"{\"}"),
      Chars("{\"a\": \"x\\\"}\", \"b\": {\"c\": null}}"),
      Chars("{\"a\": \"\\\\\"}"),
      Chars("{\"a\": {\"b\": {}}, \"a\": -7}") }

InvalidBodies == { Chars("{a: 1}"), Chars("{\"a\": 01}"), Chars("{\"a\": 1,}") }

Around(bodies) == { <<p, b, s>> : p \in JsonPrefixes, b \in bodies, s \in JsonSuffixes }

\* C32: extract_json_object returns what json.loads makes of the span of the
\* unfenced text from its first `{` to the `}` at which the depth of the braces
\* outside double-quoted strings (a backslash escaping the next character) is
\* first zero, and None when there is no `{`, no such `}` or the span is not
\* valid JSON; the text before and behind the span does not change the result:
\* a valid object between prose comes out as the object alone does, members in
\* order, and a balanced span that is not JSON gives None.
C32_SpanOfFirstBrace ==
    fn_pc = "out" =>
        /\ ExtractOwed(remove_fences(fn_in), fn_out)
        /\ \A x \in Around(ValidBodies) :
              fn_in = x[1] \o x[2] \o x[3] =>
                  /\ fn_out.kind = "object"
                  /\ fn_out = extract_json_object(x[2])
        /\ \A x \in Around(InvalidBodies) :
              fn_in = x[1] \o x[2] \o x[3] => fn_out = NoJson

\* an object whose string holds an escaped quote and a `}` was taken out of the
\* prose around it, which holds braces and quotes of its own
C32_Witness ==
    /\ fn_pc = "out"
    /\ fn_in = Chars("\"not\" } ") \o Chars("{\"a\": \"x\\\"}\", \"b\": {\"c\": null}}")
                  \o Chars(" umarim {yardimci} olur")
    /\ fn_out = [kind |-> "object",
                 items |-> << [key |-> Chars("a"), value |-> [type |-> "string", text |-> Chars("x\\\"}")]],
                              [key |-> Chars("b"), value |-> [type |-> "object", text |-> Chars("{\"c\": null}")]] >>]

----------------------------------------------------------------------------
(* C33 *)

CountOf(counts, m) == IF m \in DOMAIN counts THEN counts[m] ELSE 0

\* C33 (as claimed): after any sequence of emotion chats of one day that began
\* with an empty log and all counters zero, the count of every mood recomputed
\* for today from the chat log equals the persisted all-time count of the mood.
C33_TodayEqualsAllTime ==
    fn_pc = "read" => \A m \in Moods : CountOf(fn_out.today, m) = CountOf(fn_out.all, m)

----------------------------------------------------------------------------
(* C34 *)

\* the {error} results of the checks that chat makes before the chain starts
ValidationErrors == {"EMPTY_MESSAGE", "MESSAGE_TOO_LONG", "FILTERED", "TOO_MANY_TOKENS"}

\* C34: a request whose result is not an {error} has added exactly one
\* exchange to the conversation memory, the message as the request boundary
\* left it with the response text of the result, whichever handler served it
\* (also HELP after a RAG handler that returned None); a request that ends in
\* an {error} of the input validation has added none.
C34_OneExchange ==
    pc = "done" =>
        /\ "error" \notin DOMAIN result =>
              memory = Append(snap.memory, [input |-> user_message, output |-> result.response])
        /\ ("error" \in DOMAIN result /\ result.error \in ValidationErrors) =>
              memory = snap.memory

\* the retrieval of a RAG request came back empty and HELP answered: one
\* exchange, saved by the help flow
C34_Witness ==
    /\ pc = "done"
    /\ HandlersOf(calls) = <<"RAG", "HELP">>
    /\ result.flow_type = "HELP"
    /\ Len(memory) = Len(snap.memory) + 1
    /\ memory[Len(memory)] = [input |-> user_message, output |-> "HELP_MESSAGE"]

----------------------------------------------------------------------------
(* C35 *)

\* C35 (as claimed): one call of route_animals invokes at most one of the six
\* fetch actions; the keyword router runs only when the call of the gateway
\* raised, never after a fetch action that the gateway selected was started.
C35_OneFetchAction ==
    /\ Len(fn_out.started) <= 1
    /\ fn_out.via = "keywords" => fn_out.started \in {<<>>, <<fn_out.action>>}

----------------------------------------------------------------------------
(* C36 *)

\* C36 (as claimed): for every text that is not blocked, sanitizing the
\* sanitized text returns it unchanged: the sanitizer of the emotion, animal or
\* RAG flow passes on exactly the message that _sanitize_input produced.
C36_Idempotent ==
    fn_pc = "inner" => fn_out.inner = fn_out.boundary

----------------------------------------------------------------------------
(* C37 *)

\* C37 (as claimed): at most one EmotionChatbot is ever installed as the
\* process-wide chat engine; two first emotion requests that run at the same
\* time use the same instance, and no chat is held by an instance other than
\* the installed one.
C37_OneInstance ==
    fn_pc = "threads" =>
        /\ Len(fn_out.installed) <= 1
        /\ \A t, u \in ChatThreads :
              (fn_out.using[t] # "none" /\ fn_out.using[u] # "none") =>
                  fn_out.using[t] = fn_out.using[u]
        /\ \A i \in Instances : fn_out.chats[i] > 0 => chatbot_instance = i

====
